---- MODULE Spec2Model ----
(***************************************************************************)
(* Order fulfilment workflow of 200millas-Backend: the Orders table, the   *)
(* Workflow table (ledger of steps, current_status and wait tokens), the   *)
(* StaffAvailability table, and the handlers that write them.  A handler   *)
(* invocation is one action; the handlers whose reads and writes other     *)
(* invocations can come between are also given step by step, with the      *)
(* invocation's position and local copies in inflight.  The WebSocket      *)
(* handlers keep the Connections and Subscriptions tables and post the     *)
(* messages of an event to the open channels.  A timestamp is the          *)
(* abstract value TS; response is what the last handler returned, the      *)
(* event it put on the bus and the token it passed to send_task_success.   *)
(***************************************************************************)
EXTENDS Integers, Sequences, FiniteSets, TLC

VARIABLES orders, workflow, availability, response, inflight,
          connections, subscriptions, channels, pushed

vars == <<orders, workflow, availability, response, inflight,
          connections, subscriptions, channels, pushed>>
db == <<orders, workflow, availability>>
\* The WebSocket side: the Connections and Subscriptions tables, the channels
\* the gateway holds open, and the posts of the latest fan-out.
ws == <<connections, subscriptions, channels, pushed>>

(* ------------------------------ bounds -------------------------------- *)
\* Longest ledger: a specification takes no handler that appends a step
\* beyond it.
MaxSteps == 3
\* Largest completed count of the availability tables SpecSelect starts from.
MaxCompleted == 1

(* ----------------------------- vocabulary ------------------------------ *)
NULL == "null"
TS == "ts"

\* A list of statuses that knows "bogus".
VALID_STATUSES_m ==
  {"pending", "confirmed", "cooking", "packing", "ready", "in_delivery", "delivered",
   "bogus"}

VALID_STATUSES ==
  {"pending", "confirmed", "cooking", "packing", "ready", "in_delivery", "delivered"}

AvailabilityStatuses == {"available", "busy", "offline"}

WaitStages == {"confirmation", "cooking", "packing", "driver_pickup", "driver_delivery"}

OrderIds == {"o1"}
Tenants == {"t1", "t2"}
Users == {"s1", "d1", "cu"}
Tokens == {"tk"}

\* c2 is a chef that only the specifications of the staff directory call,
\* d2 a driver that only the specification of the couriers calls.
UserType(u) ==
  CASE u = "s1" -> "staff"
    [] u = "c2" -> "chef"
    [] u \in {"d1", "d2"} -> "driver"
    [] OTHER -> "customer"

\* Every user of the model belongs to the tenant of the deployment (TENANT_ID).
UserTenant(u) == "t1"

(* ------------------------------ records -------------------------------- *)
Step(status, assigned_to, completed_at) ==
  [status |-> status, assigned_to |-> assigned_to, completed_at |-> completed_at]

NoTokens == [s \in WaitStages |-> NULL]

Absent == [staff_type |-> NULL, tenant_id |-> NULL, status |-> NULL,
           current_order_id |-> NULL, completed_count |-> 0]

Resp(kind, event, resumed) == [kind |-> kind, event |-> event, resumed |-> resumed]

Fail(kind) == Resp(kind, NULL, NULL)

(* ------------------------ ledger step helpers -------------------------- *)
Last(steps) == steps[Len(steps)]

CloseLast(steps) == [steps EXCEPT ![Len(steps)].completed_at = TS]

\* "if last_step.status == s and not last_step.completed_at: close it"
CloseOpenLastIf(steps, s) ==
  IF steps # <<>> /\ Last(steps).status = s /\ Last(steps).completed_at = NULL
  THEN CloseLast(steps) ELSE steps

\* "if last_step.status == s: last_step.completed_at = timestamp"
CloseLastIf(steps, s) ==
  IF steps # <<>> /\ Last(steps).status = s THEN CloseLast(steps) ELSE steps

CanAppendUpTo(o, n) == Len(workflow[o].steps) < n

CanAppend(o) == CanAppendUpTo(o, MaxSteps)

\* A step that the handler writes already completed (completed_at = timestamp).
ClosedStepLedger(wf, previous_steps, new_status, assigned_to) ==
  [wf EXCEPT
     !.steps = Append(previous_steps, Step(new_status, assigned_to, TS)),
     !.current_status = new_status]

OpenStepLedger(wf, previous_steps, new_status, assigned_to) ==
  [wf EXCEPT
     !.steps = Append(previous_steps, Step(new_status, assigned_to, NULL)),
     !.current_status = new_status]

(* --------------------- orders/handler.py: create_order ----------------- *)
CreatedOrder(customer, tenant) ==
  [status |-> "pending", tenant_id |-> tenant, customer_id |-> customer,
   assigned_chef |-> NULL, assigned_driver |-> NULL]

CreatedWorkflow ==
  [current_status |-> "pending",
   steps |-> <<Step("pending", "system", NULL)>>,
   tokens |-> NoTokens]

\* The invocations that run step by step.  An invocation keeps, besides its
\* position pc, the local variables of its handler: the request it serves,
\* the copies it has read of a staff record and of a ledger, and the token it
\* has passed to send_task_success; an invocation of a queue processor keeps
\* the records of its batch still to process and the number of times the
\* queue has delivered the batch before.
Invocations == {"i1", "i2"}

Local(pc, order_id, user, status, current_record, wf, task_token) ==
  [pc |-> pc, order_id |-> order_id, user |-> user, status |-> status,
   current_record |-> current_record, workflow |-> wf,
   task_token |-> task_token, records |-> <<>>, receive_count |-> 0]

NoLedger == [steps |-> <<>>, current_status |-> NULL, tokens |-> NoTokens]

\* An invocation not started, and one that has returned.
Idle == Local("idle", NULL, NULL, NULL, Absent, NoLedger, NULL)

Done(task_token) == Local("done", NULL, NULL, NULL, Absent, NoLedger, task_token)

\* The connection ids the gateway hands out, and a connection id without a
\* Connections item.
Connections == {"c1", "c2"}
NoConnection == [user_id |-> NULL, subscribed_orders |-> <<>>]

\* No client has connected.
InitSockets ==
  /\ connections = [c \in Connections |-> NoConnection]
  /\ subscriptions = {}
  /\ channels = {}
  /\ pushed = <<>>

InitOrders ==
  /\ orders = [o \in OrderIds |-> CreatedOrder("cu", "t1")]
  /\ workflow = [o \in OrderIds |-> CreatedWorkflow]
  /\ response = Resp("ok", "OrderCreated", NULL)
  /\ inflight = [i \in Invocations |-> Idle]
  /\ InitSockets

Init ==
  /\ InitOrders
  /\ availability = [s \in {"s1", "d1"} |-> Absent]

(* ------------------ orders/handler.py: update_order_status ------------- *)
UpdateOrderStatusWorkflow(wf, new_status, user) ==
  [wf EXCEPT
     !.steps = Append(IF wf.steps # <<>> /\ Last(wf.steps).completed_at = NULL
                      THEN CloseLast(wf.steps) ELSE wf.steps,
                      Step(new_status, user, NULL)),
     !.current_status = new_status]

UpdateOrderStatusAllowed(user_type) == user_type \in {"chef", "staff", "admin"}

update_order_status(o, u, new_status) ==
  /\ UNCHANGED <<inflight, ws>>
  /\ IF ~UpdateOrderStatusAllowed(UserType(u))
     THEN /\ response' = Fail("Unauthorized")
          /\ UNCHANGED db
     ELSE IF new_status \notin VALID_STATUSES
     THEN /\ response' = Fail("ValidationError")
          /\ UNCHANGED db
     ELSE /\ orders' = [orders EXCEPT ![o].status = new_status]
          /\ workflow' = [workflow EXCEPT
                            ![o] = UpdateOrderStatusWorkflow(@, new_status, u)]
          /\ response' = Resp("ok", "OrderStatusChanged", NULL)
          /\ UNCHANGED availability

(* --------------------- workflow/handler.py: update_workflow ------------ *)
UpdateWorkflowLedger(wf, new_status, assigned_to) ==
  [wf EXCEPT
     !.steps = Append(wf.steps,
                      Step(new_status,
                           IF assigned_to # "" THEN assigned_to ELSE "system",
                           NULL)),
     !.current_status = new_status]

\* The handler reads the caller's tenant only (for the event); it reads
\* neither the caller's identity nor the caller's role.
update_workflow(o, u, new_status, assigned_to) ==
  /\ UNCHANGED <<inflight, ws>>
  /\ IF new_status \notin VALID_STATUSES
     THEN /\ response' = Fail("ValidationError")
          /\ UNCHANGED db
     ELSE /\ workflow' = [workflow EXCEPT
                            ![o] = UpdateWorkflowLedger(@, new_status, assigned_to)]
          /\ orders' = [orders EXCEPT ![o].status = new_status]
          /\ response' = Resp("ok", "WorkflowUpdated", NULL)
          /\ UNCHANGED availability

(* --------------- queue/chef_processor.py, driver_processor.py ---------- *)
\* A filter by staff type and tenant that forgets the status.
AvailableOfType_m(staff_type, tenant_id) ==
  {s \in DOMAIN availability : /\ availability[s].staff_type = staff_type
                               /\ availability[s].tenant_id = tenant_id}

\* The records the staff-type index query returns, filtered by status and
\* tenant.
AvailableOfType(staff_type, tenant_id) ==
  {s \in DOMAIN availability : /\ availability[s].staff_type = staff_type
                               /\ availability[s].status = "available"
                               /\ availability[s].tenant_id = tenant_id}

\* A selection without the sort: any candidate.
LeastCompleted_m(candidates) == candidates

\* The stable sort by completed count puts a record of least count first; the
\* index query fixes no order among records of equal count, so each of them
\* is a possible result.  The empty set stands for None.
LeastCompleted(candidates) ==
  {s \in candidates :
     \A t \in candidates :
        availability[s].completed_count <= availability[t].completed_count}

FindAvailableChef(tenant_id) == LeastCompleted(AvailableOfType("chef", tenant_id))

FindAvailableDriver(tenant_id) == LeastCompleted(AvailableOfType("driver", tenant_id))

AssignLedger(wf, previous, new_status, staff) ==
  [wf EXCEPT
     !.steps = Append(CloseOpenLastIf(wf.steps, previous),
                      Step(new_status, staff, NULL)),
     !.current_status = new_status]

MarkBusy_m(rec, o) == [rec EXCEPT !.status = "busy"]
MarkBusy(rec, o) == [rec EXCEPT !.status = "busy", !.current_order_id = o]

process_chef_assignments(o, tenant_id) ==
  /\ UNCHANGED <<inflight, ws>>
  /\ IF FindAvailableChef(tenant_id) = {}
     THEN /\ response' = Fail("NoCandidateAvailable")
          /\ UNCHANGED db
     ELSE \E chef \in FindAvailableChef(tenant_id) :
          /\ orders' = [orders EXCEPT ![o].status = "cooking",
                                      ![o].assigned_chef = chef]
          /\ workflow' = [workflow EXCEPT
                            ![o] = AssignLedger(@, "confirmed", "cooking", chef)]
          /\ availability' = [availability EXCEPT ![chef] = MarkBusy(@, o)]
          /\ response' = Resp("ok", "OrderAssignedToChef", NULL)

process_driver_assignments(o, tenant_id) ==
  /\ UNCHANGED <<inflight, ws>>
  /\ IF FindAvailableDriver(tenant_id) = {}
     THEN /\ response' = Fail("NoCandidateAvailable")
          /\ UNCHANGED db
     ELSE \E driver \in FindAvailableDriver(tenant_id) :
          /\ orders' = [orders EXCEPT ![o].status = "in_delivery",
                                      ![o].assigned_driver = driver]
          /\ workflow' = [workflow EXCEPT
                            ![o] = AssignLedger(@, "ready", "in_delivery", driver)]
          /\ availability' = [availability EXCEPT ![driver] = MarkBusy(@, o)]
          /\ response' = Resp("ok", "OrderAssignedToDriver", NULL)

(* ------------- queue/chef_availability.py, driver_availability.py ------ *)
ReportedRecord(current, staff_type, tenant_id, status) ==
  [staff_type |-> staff_type,
   tenant_id |-> tenant_id,
   status |-> status,
   current_order_id |-> IF status = "available" THEN NULL
                        ELSE current.current_order_id,
   completed_count |-> current.completed_count]

report_chef_availability(u, status) ==
  /\ UNCHANGED <<inflight, ws>>
  /\ UNCHANGED <<orders, workflow>>
  /\ IF UserType(u) \notin {"chef", "staff"}
     THEN /\ response' = Fail("Unauthorized")
          /\ UNCHANGED availability
     ELSE IF status \notin AvailabilityStatuses
     THEN /\ response' = Fail("ValidationError")
          /\ UNCHANGED availability
     ELSE /\ availability' = [availability EXCEPT
                ![u] = ReportedRecord(@, "chef", UserTenant(u), status)]
          /\ response' = Resp("ok", NULL, NULL)

report_driver_availability(u, status) ==
  /\ UNCHANGED <<inflight, ws>>
  /\ UNCHANGED <<orders, workflow>>
  /\ IF UserType(u) # "driver"
     THEN /\ response' = Fail("Unauthorized")
          /\ UNCHANGED availability
     ELSE IF status \notin AvailabilityStatuses
     THEN /\ response' = Fail("ValidationError")
          /\ UNCHANGED availability
     ELSE /\ availability' = [availability EXCEPT
                ![u] = ReportedRecord(@, "driver", UserTenant(u), status)]
          /\ response' = Resp("ok", NULL, NULL)

(* ---------------- workflow/step_functions_handlers.py ------------------ *)
HasRecord(s) == s \in DOMAIN availability /\ availability[s].staff_type # NULL

Release(rec) ==
  [rec EXCEPT !.status = "available",
              !.current_order_id = NULL,
              !.completed_count = @ + 1]

confirm_order(o) ==
  /\ UNCHANGED <<inflight, ws>>
  /\ orders' = [orders EXCEPT ![o].status = "confirmed"]
  /\ workflow' = [workflow EXCEPT
       ![o] = ClosedStepLedger(@, CloseOpenLastIf(@.steps, "pending"),
                               "confirmed", "system")]
  /\ response' = Resp("ok", "OrderConfirmed", NULL)
  /\ UNCHANGED availability

\* Sends the work item to the chef queue; the queue delivers it to
\* process_chef_assignments at least once.
assign_cook(o) ==
  /\ UNCHANGED <<inflight, ws>>
  /\ response' = Resp("ok", "OrderSentToChefQueue", NULL)
  /\ UNCHANGED db

sf_complete_cooking(o) ==
  /\ UNCHANGED <<inflight, ws>>
  /\ orders' = [orders EXCEPT ![o].status = "packing"]
  /\ workflow' = [workflow EXCEPT
       ![o] = OpenStepLedger(@, CloseLastIf(@.steps, "cooking"), "packing",
                IF orders[o].assigned_chef # NULL
                THEN orders[o].assigned_chef ELSE "system")]
  /\ response' = Resp("ok", "OrderCookingCompleted", NULL)
  /\ UNCHANGED availability

sf_complete_packing(o) ==
  /\ UNCHANGED <<inflight, ws>>
  /\ orders' = [orders EXCEPT ![o].status = "ready"]
  /\ availability' =
       IF orders[o].assigned_chef # NULL /\ HasRecord(orders[o].assigned_chef)
       THEN [availability EXCEPT ![orders[o].assigned_chef] = Release(@)]
       ELSE availability
  /\ workflow' = [workflow EXCEPT
       ![o] = ClosedStepLedger(@, CloseLastIf(@.steps, "packing"),
                               "ready", "system")]
  /\ response' = Resp("ok", "OrderPacked", NULL)

\* A failure handler that leaves the ledger as it is.
FailedLedger_m(wf) == wf

FailedLedger(wf) == [wf EXCEPT !.current_status = "failed"]

handle_order_failure(o) ==
  /\ UNCHANGED <<inflight, ws>>
  /\ orders' = [orders EXCEPT ![o].status = "failed"]
  /\ workflow' = [workflow EXCEPT ![o] = FailedLedger(@)]
  /\ response' = Resp("ok", "OrderFailed", NULL)
  /\ UNCHANGED availability

\* wait_for_order_confirmation_token, wait_for_cooking_token,
\* wait_for_packing_token, wait_for_driver_pickup_token and
\* wait_for_driver_delivery_token differ in the stage name alone.
StoreToken(wf, stage, token) == [wf EXCEPT !.tokens[stage] = token]

wait_for_token(o, stage, token) ==
  /\ UNCHANGED <<inflight, ws>>
  /\ workflow' = [workflow EXCEPT ![o] = StoreToken(@, stage, token)]
  /\ response' = Resp("ok", NULL, NULL)
  /\ UNCHANGED <<orders, availability>>

(* -------------------------- chef/handler.py ---------------------------- *)
\* The stored token of the stage is passed to send_task_success and then
\* cleared.  sent tells whether send_task_success returned: it raises for a
\* token the orchestration no longer waits on, and the chef handlers then
\* log a warning and leave the token in place.
\* A resume that leaves the token stored.
ResumeToken_m(wf, stage, sent) == wf
ResumeToken(wf, stage, sent) ==
  IF wf.tokens[stage] # NULL /\ sent THEN [wf EXCEPT !.tokens[stage] = NULL] ELSE wf

Resumed(wf, stage, sent) == IF sent THEN wf.tokens[stage] ELSE NULL

ChefRoleAllowed(user_type) == user_type \in {"chef", "staff", "admin"}

chef_complete_cooking(o, u, sent) ==
  /\ UNCHANGED <<inflight, ws>>
  /\ IF ~ChefRoleAllowed(UserType(u)) \/ orders[o].assigned_chef # u
     THEN /\ response' = Fail("Unauthorized")
          /\ UNCHANGED db
     ELSE IF orders[o].status # "cooking"
     THEN /\ response' = Fail("ValidationError")
          /\ UNCHANGED db
     ELSE /\ orders' = [orders EXCEPT ![o].status = "packing"]
          /\ workflow' = [workflow EXCEPT
               ![o] = ResumeToken(
                        OpenStepLedger(@, CloseOpenLastIf(@.steps, "cooking"),
                                       "packing", u),
                        "cooking", sent)]
          /\ response' = Resp("ok", "OrderCookingCompleted",
                              Resumed(workflow[o], "cooking", sent))
          /\ UNCHANGED availability

chef_complete_packing(o, u, sent) ==
  /\ UNCHANGED <<inflight, ws>>
  /\ IF ~ChefRoleAllowed(UserType(u)) \/ orders[o].assigned_chef # u
     THEN /\ response' = Fail("Unauthorized")
          /\ UNCHANGED db
     ELSE IF orders[o].status # "packing"
     THEN /\ response' = Fail("ValidationError")
          /\ UNCHANGED db
     ELSE /\ orders' = [orders EXCEPT ![o].status = "ready"]
          /\ workflow' = [workflow EXCEPT
               ![o] = ResumeToken(
                        ClosedStepLedger(@, CloseOpenLastIf(@.steps, "packing"),
                                         "ready", "system"),
                        "packing", sent)]
          /\ availability' = IF HasRecord(u)
                             THEN [availability EXCEPT ![u] = Release(@)]
                             ELSE availability
          /\ response' = Resp("ok", "OrderPacked",
                              Resumed(workflow[o], "packing", sent))

(* --------------------- driver/manual_operations.py --------------------- *)
pickup_order(o, u) ==
  /\ UNCHANGED <<inflight, ws>>
  /\ IF orders[o].status # "ready"
     THEN /\ response' = Fail("ValidationError")
          /\ UNCHANGED db
     ELSE /\ orders' = [orders EXCEPT ![o].status = "in_delivery",
                                      ![o].assigned_driver = u]
          /\ workflow' = [workflow EXCEPT
                            ![o] = AssignLedger(@, "ready", "in_delivery", u)]
          /\ response' = Resp("ok", "OrderPickedUp", NULL)
          /\ UNCHANGED availability

DeliveredLedger(wf) ==
  [wf EXCEPT !.steps = CloseOpenLastIf(wf.steps, "in_delivery"),
             !.current_status = "delivered"]

complete_order(o, u) ==
  /\ UNCHANGED <<inflight, ws>>
  /\ IF orders[o].assigned_driver # u
     THEN /\ response' = Fail("Unauthorized")
          /\ UNCHANGED db
     ELSE IF orders[o].status # "in_delivery"
     THEN /\ response' = Fail("ValidationError")
          /\ UNCHANGED db
     ELSE /\ orders' = [orders EXCEPT ![o].status = "delivered"]
          /\ workflow' = [workflow EXCEPT ![o] = DeliveredLedger(@)]
          /\ response' = Resp("ok", "OrderDelivered", NULL)
          /\ UNCHANGED availability

\* A cancellation that opens no ready step.
CancelLedger_m(wf) ==
  [wf EXCEPT !.steps = CloseLastIf(wf.steps, "in_delivery"),
             !.current_status = "ready"]
CancelLedger(wf) ==
  IF wf.steps # <<>>
  THEN OpenStepLedger(wf, CloseLastIf(wf.steps, "in_delivery"), "ready", "system")
  ELSE [wf EXCEPT !.current_status = "ready"]

cancel_pickup(o, u) ==
  /\ UNCHANGED <<inflight, ws>>
  /\ IF orders[o].assigned_driver # u
     THEN /\ response' = Fail("Unauthorized")
          /\ UNCHANGED db
     ELSE IF orders[o].status # "in_delivery"
     THEN /\ response' = Fail("ValidationError")
          /\ UNCHANGED db
     ELSE /\ orders' = [orders EXCEPT ![o].status = "ready",
                                      ![o].assigned_driver = NULL]
          /\ workflow' = [workflow EXCEPT ![o] = CancelLedger(@)]
          /\ response' = Resp("ok", "OrderPickupCanceled", NULL)
          /\ UNCHANGED availability

(* --------------------- workflow/token_management.py -------------------- *)
\* The Orders row is written before send_task_success is called and the
\* ledger after it: when the call raises, the handler re-raises, the Orders
\* row stays written and the ledger is not.
confirm_order_manual(o, u, sent) ==
  /\ UNCHANGED <<inflight, ws>>
  /\ IF UserType(u) \notin {"admin", "staff"}
     THEN /\ response' = Fail("Unauthorized")
          /\ UNCHANGED db
     ELSE IF workflow[o].tokens["confirmation"] = NULL
     THEN /\ response' = Fail("ValidationError")
          /\ UNCHANGED db
     ELSE /\ orders' = [orders EXCEPT ![o].status = "confirmed"]
          /\ UNCHANGED availability
          /\ IF sent
             THEN /\ workflow' = [workflow EXCEPT
                       ![o] = ResumeToken(
                                ClosedStepLedger(@, CloseOpenLastIf(@.steps, "pending"),
                                                 "confirmed", u),
                                "confirmation", sent)]
                  /\ response' = Resp("ok", NULL, workflow[o].tokens["confirmation"])
             ELSE /\ response' = Fail("InternalError")
                  /\ UNCHANGED workflow

(* ----------------------- auth/handler.py: login ------------------------ *)
login(u) ==
  /\ UNCHANGED <<inflight, ws>>
  /\ response' = Resp("ok", NULL, NULL)
  /\ availability' =
       IF UserType(u) \in {"staff", "chef"}
       THEN [availability EXCEPT
               ![u] = ReportedRecord(@, "chef", UserTenant(u), "available")]
       ELSE availability
  /\ UNCHANGED <<orders, workflow>>

(* -------------------------- specification ------------------------------ *)
\* Inputs of the requests under Spec.  "bogus" is a value outside the
\* accepted ones.  update_workflow treats every accepted status alike, and
\* the availability reports of busy and offline are left to specifications
\* of the staff directory; SpecSelect below starts from tables that hold
\* such records.  Only the confirmation stage has a handler that reads its
\* token back under Spec's bounds, so that is the stage stored.
RequestTargets == VALID_STATUSES \cup {"bogus"}
WorkflowTargets == {"ready", "delivered", "bogus"}
AssignedToInputs == {""}
AvailabilityInputs == {"available", "bogus"}
StoredStages == {"confirmation"}

\* Every handler, on the order that create_order wrote.  The work item of an
\* order carries the order's tenant, as assign_cook sends it.
Next ==
  \/ \E o \in OrderIds, u \in Users, s \in RequestTargets :
        CanAppend(o) /\ update_order_status(o, u, s)
  \/ \E o \in OrderIds, u \in Users, s \in WorkflowTargets, a \in AssignedToInputs :
        CanAppend(o) /\ update_workflow(o, u, s, a)
  \/ \E o \in OrderIds : CanAppend(o) /\ process_chef_assignments(o, orders[o].tenant_id)
  \/ \E o \in OrderIds : CanAppend(o) /\ process_driver_assignments(o, orders[o].tenant_id)
  \/ \E u \in Users, s \in AvailabilityInputs : report_chef_availability(u, s)
  \/ \E u \in Users, s \in AvailabilityInputs : report_driver_availability(u, s)
  \/ \E o \in OrderIds : CanAppend(o) /\ confirm_order(o)
  \/ \E o \in OrderIds : assign_cook(o)
  \/ \E o \in OrderIds : CanAppend(o) /\ sf_complete_cooking(o)
  \/ \E o \in OrderIds : CanAppend(o) /\ sf_complete_packing(o)
  \/ \E o \in OrderIds : handle_order_failure(o)
  \/ \E o \in OrderIds, st \in StoredStages, tk \in Tokens : wait_for_token(o, st, tk)
  \/ \E o \in OrderIds, u \in Users, sent \in BOOLEAN : CanAppend(o) /\ chef_complete_cooking(o, u, sent)
  \/ \E o \in OrderIds, u \in Users, sent \in BOOLEAN : CanAppend(o) /\ chef_complete_packing(o, u, sent)
  \/ \E o \in OrderIds, u \in Users : CanAppend(o) /\ pickup_order(o, u)
  \/ \E o \in OrderIds, u \in Users : complete_order(o, u)
  \/ \E o \in OrderIds, u \in Users : CanAppend(o) /\ cancel_pickup(o, u)
  \/ \E o \in OrderIds, u \in Users, sent \in BOOLEAN : CanAppend(o) /\ confirm_order_manual(o, u, sent)
  \/ \E u \in Users : login(u)

Spec == Init /\ [][Next]_vars

(* ------------------- the queue processors on any table ----------------- *)
\* SpecSelect starts the two queue processors on every StaffAvailability
\* table of SelectStaff: each member has no record, or a record of either
\* staff type, of either tenant, available, busy (with or without an order)
\* or offline, with a completed count up to MaxCompleted.
SelectStaff == {"m1", "m2", "m3"}

SelectRecords ==
  {Absent} \cup
  { [staff_type |-> ty, tenant_id |-> t, status |-> st[1],
     current_order_id |-> st[2], completed_count |-> n] :
      ty \in {"chef", "driver"}, t \in Tenants,
      st \in {<<"available", NULL>>, <<"busy", NULL>>, <<"busy", "o1">>,
              <<"offline", NULL>>},
      n \in 0..MaxCompleted }

InitSelect ==
  /\ InitOrders
  /\ availability \in [SelectStaff -> SelectRecords]

NextSelect ==
  \/ \E o \in OrderIds, t \in Tenants : CanAppend(o) /\ process_chef_assignments(o, t)
  \/ \E o \in OrderIds, t \in Tenants : CanAppend(o) /\ process_driver_assignments(o, t)

SpecSelect == InitSelect /\ [][NextSelect]_vars

(* ------------------------- the staff directory ------------------------- *)
\* SpecStaff: two kitchen users and a driver report every status, log in,
\* are assigned by the queue processors and complete their work.
StaffCallers == {"s1", "c2", "d1"}
DirectoryInputs == AvailabilityStatuses \cup {"bogus"}

InitStaff ==
  /\ InitOrders
  /\ availability = [s \in StaffCallers |-> Absent]

CanAppendStaff(o) == CanAppendUpTo(o, MaxSteps + 1)

NextStaff ==
  \/ \E u \in StaffCallers, s \in DirectoryInputs : report_chef_availability(u, s)
  \/ \E u \in StaffCallers, s \in DirectoryInputs : report_driver_availability(u, s)
  \/ \E u \in StaffCallers : login(u)
  \/ \E o \in OrderIds, t \in Tenants :
        CanAppendStaff(o) /\ process_chef_assignments(o, t)
  \/ \E o \in OrderIds, t \in Tenants :
        CanAppendStaff(o) /\ process_driver_assignments(o, t)
  \/ \E o \in OrderIds, u \in StaffCallers, sent \in BOOLEAN :
        CanAppendStaff(o) /\ chef_complete_cooking(o, u, sent)
  \/ \E o \in OrderIds, u \in StaffCallers, sent \in BOOLEAN :
        CanAppendStaff(o) /\ chef_complete_packing(o, u, sent)
  \/ \E o \in OrderIds : CanAppendStaff(o) /\ sf_complete_packing(o)
  \/ \E o \in OrderIds, u \in StaffCallers : complete_order(o, u)

SpecStaff == InitStaff /\ [][NextStaff]_vars

(* ----------------------- the task tokens of a run ---------------------- *)
\* SpecTokens: the orchestration stores the token of any stage while the
\* kitchen and the courier act on the order; the ledger may grow two steps
\* beyond MaxSteps so that an order can pass from pending to in_delivery.
TokenCallers == {"s1", "d1"}

CanAppendTokens(o) == CanAppendUpTo(o, MaxSteps + 2)

NextTokens ==
  \/ \E u \in TokenCallers : login(u)
  \/ \E o \in OrderIds, stage \in WaitStages, token \in Tokens :
        wait_for_token(o, stage, token)
  \/ \E o \in OrderIds :
        CanAppendTokens(o) /\ process_chef_assignments(o, orders[o].tenant_id)
  \/ \E o \in OrderIds, u \in TokenCallers, sent \in BOOLEAN :
        CanAppendTokens(o) /\ confirm_order_manual(o, u, sent)
  \/ \E o \in OrderIds, u \in TokenCallers, sent \in BOOLEAN :
        CanAppendTokens(o) /\ chef_complete_cooking(o, u, sent)
  \/ \E o \in OrderIds, u \in TokenCallers, sent \in BOOLEAN :
        CanAppendTokens(o) /\ chef_complete_packing(o, u, sent)
  \/ \E o \in OrderIds : CanAppendTokens(o) /\ sf_complete_packing(o)
  \/ \E o \in OrderIds, u \in TokenCallers :
        CanAppendTokens(o) /\ pickup_order(o, u)
  \/ \E o \in OrderIds, u \in TokenCallers : complete_order(o, u)

SpecTokens == Init /\ [][NextTokens]_vars
(* ------------------ handlers that run step by step --------------------- *)
\* report_availability of the chef: the checks and the read of the record,
\* then the put of the whole record built from the copy read.
report_chef_get(i, u, status) ==
  /\ inflight[i].pc = "idle"
  /\ UNCHANGED ws
  /\ UNCHANGED db
  /\ IF UserType(u) \notin {"chef", "staff"}
     THEN /\ response' = Fail("Unauthorized")
          /\ UNCHANGED <<inflight, ws>>
     ELSE IF status \notin AvailabilityStatuses
     THEN /\ response' = Fail("ValidationError")
          /\ UNCHANGED <<inflight, ws>>
     ELSE /\ inflight' = [inflight EXCEPT
                ![i] = Local("report_put", NULL, u, status, availability[u],
                             NoLedger, NULL)]
          /\ UNCHANGED response

report_chef_put(i) ==
  /\ inflight[i].pc = "report_put"
  /\ UNCHANGED ws
  /\ availability' = [availability EXCEPT
       ![inflight[i].user] = ReportedRecord(inflight[i].current_record, "chef",
                                            UserTenant(inflight[i].user),
                                            inflight[i].status)]
  /\ response' = Resp("ok", NULL, NULL)
  /\ inflight' = [inflight EXCEPT ![i] = Done(NULL)]
  /\ UNCHANGED <<orders, workflow>>

\* complete_cooking of the chef: each step reads or writes one item.
complete_cooking_check(i, o, u) ==
  /\ inflight[i].pc = "idle"
  /\ UNCHANGED ws
  /\ UNCHANGED db
  /\ IF ~ChefRoleAllowed(UserType(u)) \/ orders[o].assigned_chef # u
     THEN /\ response' = Fail("Unauthorized")
          /\ UNCHANGED <<inflight, ws>>
     ELSE IF orders[o].status # "cooking"
     THEN /\ response' = Fail("ValidationError")
          /\ UNCHANGED <<inflight, ws>>
     ELSE /\ inflight' = [inflight EXCEPT
                ![i] = Local("update_order", o, u, NULL, Absent, NoLedger, NULL)]
          /\ UNCHANGED response

complete_cooking_update_order(i) ==
  /\ inflight[i].pc = "update_order"
  /\ UNCHANGED ws
  /\ orders' = [orders EXCEPT ![inflight[i].order_id].status = "packing"]
  /\ inflight' = [inflight EXCEPT ![i].pc = "get_workflow"]
  /\ UNCHANGED <<workflow, availability, response>>

complete_cooking_get_workflow(i) ==
  /\ inflight[i].pc = "get_workflow"
  /\ UNCHANGED ws
  /\ inflight' = [inflight EXCEPT
       ![i].pc = "put_workflow",
       ![i].workflow = workflow[inflight[i].order_id]]
  /\ UNCHANGED <<db, response>>

complete_cooking_put_workflow(i) ==
  /\ inflight[i].pc = "put_workflow"
  /\ UNCHANGED ws
  /\ workflow' = [workflow EXCEPT
       ![inflight[i].order_id] =
          OpenStepLedger(inflight[i].workflow,
                         CloseOpenLastIf(inflight[i].workflow.steps, "cooking"),
                         "packing", inflight[i].user)]
  /\ inflight' = [inflight EXCEPT ![i].pc = "get_token", ![i].workflow = NoLedger]
  /\ UNCHANGED <<orders, availability, response>>

\* The ledger is read again; without a stored token the handler returns.
complete_cooking_get_token(i) ==
  /\ inflight[i].pc = "get_token"
  /\ UNCHANGED ws
  /\ UNCHANGED db
  /\ IF workflow[inflight[i].order_id].tokens["cooking"] = NULL
     THEN /\ inflight' = [inflight EXCEPT ![i] = Done(NULL)]
          /\ response' = Resp("ok", "OrderCookingCompleted", NULL)
     ELSE /\ inflight' = [inflight EXCEPT
                ![i].pc = "send_task_success",
                ![i].workflow = workflow[inflight[i].order_id]]
          /\ UNCHANGED response

\* send_task_success is called with the token of the copy; when it raises,
\* the handler logs a warning and returns.
complete_cooking_send_task_success(i, sent) ==
  /\ inflight[i].pc = "send_task_success"
  /\ UNCHANGED ws
  /\ UNCHANGED db
  /\ IF sent
     THEN /\ inflight' = [inflight EXCEPT
                ![i].pc = "clear_token",
                ![i].task_token = inflight[i].workflow.tokens["cooking"]]
          /\ UNCHANGED response
     ELSE /\ inflight' = [inflight EXCEPT
                ![i] = Done(inflight[i].workflow.tokens["cooking"])]
          /\ response' = Resp("ok", "OrderCookingCompleted", NULL)

\* The copy, its cooking token cleared, is put back whole.
complete_cooking_clear_token(i) ==
  /\ inflight[i].pc = "clear_token"
  /\ UNCHANGED ws
  /\ workflow' = [workflow EXCEPT
       ![inflight[i].order_id] =
          [inflight[i].workflow EXCEPT !.tokens["cooking"] = NULL]]
  /\ response' = Resp("ok", "OrderCookingCompleted", inflight[i].task_token)
  /\ inflight' = [inflight EXCEPT ![i] = Done(inflight[i].task_token)]
  /\ UNCHANGED <<orders, availability>>

\* SpecRace: two invocations run step by step on the order that o1 is once
\* chef s1 has logged in, the chef queue processor has assigned o1 to s1 and
\* wait_for_cooking_token has stored the token of the cooking stage.  No
\* token of the cooking stage is stored again; the orchestration, once the
\* cooking token has been passed to send_task_success, stores the token of
\* the packing stage, and it completes the packing.
RaceCallers == {"s1", "d1"}

InitRace ==
  /\ orders = [o \in OrderIds |->
                 [CreatedOrder("cu", "t1") EXCEPT !.status = "cooking",
                                                  !.assigned_chef = "s1"]]
  /\ workflow = [o \in OrderIds |->
                   StoreToken(AssignLedger(CreatedWorkflow, "confirmed",
                                           "cooking", "s1"),
                              "cooking", "tk")]
  /\ availability =
       [s \in {"s1", "d1"} |->
          IF s = "s1"
          THEN MarkBusy(ReportedRecord(Absent, "chef", "t1", "available"), "o1")
          ELSE Absent]
  /\ response = Resp("ok", NULL, NULL)
  /\ inflight = [i \in Invocations |-> Idle]
  /\ InitSockets

CanAppendRace(o) == CanAppendUpTo(o, MaxSteps + 2)

NextRace ==
  \/ \E i \in Invocations, u \in RaceCallers, s \in DirectoryInputs :
        report_chef_get(i, u, s)
  \/ \E i \in Invocations : report_chef_put(i)
  \/ \E i \in Invocations, o \in OrderIds, u \in RaceCallers :
        complete_cooking_check(i, o, u)
  \/ \E i \in Invocations : complete_cooking_update_order(i)
  \/ \E i \in Invocations : complete_cooking_get_workflow(i)
  \/ \E i \in Invocations :
        /\ inflight[i].pc = "put_workflow"
        /\ CanAppendRace(inflight[i].order_id)
        /\ complete_cooking_put_workflow(i)
  \/ \E i \in Invocations : complete_cooking_get_token(i)
  \/ \E i \in Invocations, sent \in BOOLEAN :
        complete_cooking_send_task_success(i, sent)
  \/ \E i \in Invocations : complete_cooking_clear_token(i)
  \/ \E o \in OrderIds, token \in Tokens :
        /\ \E i \in Invocations : inflight[i].task_token # NULL
        /\ wait_for_token(o, "packing", token)
  \/ \E o \in OrderIds, u \in RaceCallers, sent \in BOOLEAN :
        CanAppendRace(o) /\ chef_complete_packing(o, u, sent)
  \/ \E o \in OrderIds : CanAppendRace(o) /\ sf_complete_packing(o)

SpecRace == InitRace /\ [][NextRace]_vars
\* A wait handler of the orchestration (wait_for_cooking_token and its
\* siblings): the read of the ledger, then the put of the copy with the
\* token of the stage set.  The invocation keeps the stage in status and the
\* token to store in task_token.
wait_for_token_get(i, o, stage, token) ==
  /\ inflight[i].pc = "idle"
  /\ UNCHANGED ws
  /\ inflight' = [inflight EXCEPT
       ![i] = Local("token_put", o, NULL, stage, Absent, workflow[o], token)]
  /\ UNCHANGED <<db, response>>

wait_for_token_put(i) ==
  /\ inflight[i].pc = "token_put"
  /\ UNCHANGED ws
  /\ workflow' = [workflow EXCEPT
       ![inflight[i].order_id] =
          StoreToken(inflight[i].workflow, inflight[i].status,
                     inflight[i].task_token)]
  /\ response' = Resp("ok", NULL, NULL)
  /\ inflight' = [inflight EXCEPT ![i] = Done(NULL)]
  /\ UNCHANGED <<orders, availability>>

\* SpecStore: the orchestration stores the tokens of the confirmation and of
\* the cooking stage step by step while transitions of the same order run.
StoreStages == {"confirmation", "cooking"}
StoreTargets == {"cooking", "bogus"}

NextStore ==
  \/ \E i \in Invocations, o \in OrderIds, stage \in StoreStages, token \in Tokens :
        wait_for_token_get(i, o, stage, token)
  \/ \E i \in Invocations : wait_for_token_put(i)
  \/ \E o \in OrderIds : CanAppend(o) /\ confirm_order(o)
  \/ \E o \in OrderIds, s \in StoreTargets :
        CanAppend(o) /\ update_order_status(o, "s1", s)
  \/ \E o \in OrderIds, sent \in BOOLEAN :
        CanAppend(o) /\ confirm_order_manual(o, "s1", sent)

SpecStore == Init /\ [][NextStore]_vars
(* ------------------------------ couriers ------------------------------- *)
\* SpecCourier: two couriers report, are assigned by the driver queue
\* processor, pick up, cancel and deliver the order that the orchestration
\* has made ready.
CourierCallers == {"d1", "d2"}
CourierInputs == {"available", "offline"}

InitCourier ==
  /\ InitOrders
  /\ availability = [s \in CourierCallers |-> Absent]

CanAppendCourier(o) == CanAppendUpTo(o, MaxSteps + 2)

NextCourier ==
  \/ \E u \in CourierCallers, s \in CourierInputs : report_driver_availability(u, s)
  \/ \E o \in OrderIds : CanAppendCourier(o) /\ sf_complete_packing(o)
  \/ \E o \in OrderIds, t \in Tenants :
        CanAppendCourier(o) /\ process_driver_assignments(o, t)
  \/ \E o \in OrderIds, u \in CourierCallers :
        CanAppendCourier(o) /\ pickup_order(o, u)
  \/ \E o \in OrderIds, u \in CourierCallers :
        CanAppendCourier(o) /\ cancel_pickup(o, u)
  \/ \E o \in OrderIds, u \in CourierCallers : complete_order(o, u)

SpecCourier == InitCourier /\ [][NextCourier]_vars
(* ------------------------ websocket/handler.py ------------------------- *)
\* A Connections item, a Subscriptions item (its key is made of the order
\* and the connection), a message and the record of one post_to_connection.
Connection(user_id, subscribed_orders) ==
  [user_id |-> user_id, subscribed_orders |-> subscribed_orders]

HasConnection(c) == connections[c].user_id # NULL

SubscriptionId(order_id, connection_id) == <<order_id, connection_id>>

Subscription(order_id, connection_id) ==
  [subscription_id |-> SubscriptionId(order_id, connection_id),
   order_id |-> order_id,
   connection_ids |-> <<connection_id>>]

PutSubscription(table, item) ==
  {x \in table : x.subscription_id # item.subscription_id} \cup {item}

DeleteSubscription(table, subscription_id) ==
  {x \in table : x.subscription_id # subscription_id}

Message(type, order_id, status) ==
  [type |-> type, order_id |-> order_id, status |-> status]

Post(connection_id, message, result) ==
  [connection_id |-> connection_id, message |-> message, result |-> result]

InSeq(seq, x) == \E k \in 1..Len(seq) : seq[k] = x

\* list.remove: the first occurrence goes.
RECURSIVE RemoveFirst(_, _)
RemoveFirst(seq, x) ==
  IF seq = <<>> THEN <<>>
  ELSE IF Head(seq) = x THEN Tail(seq)
  ELSE <<Head(seq)>> \o RemoveFirst(Tail(seq), x)

\* The gateway opens the channel and connect writes the Connections item.
\* A connection id is new: nothing is left of an earlier use of it.
connect(c, u) ==
  /\ c \notin channels /\ ~HasConnection(c)
  /\ \A x \in subscriptions : x.subscription_id[2] # c
  /\ channels' = channels \cup {c}
  /\ connections' = [connections EXCEPT ![c] = Connection(u, <<>>)]
  /\ pushed' = <<>>
  /\ UNCHANGED <<db, response, inflight, subscriptions>>

\* The channel closes and disconnect deletes the Connections item.
disconnect(c) ==
  /\ c \in channels
  /\ channels' = channels \ {c}
  /\ connections' = [connections EXCEPT ![c] = NoConnection]
  /\ pushed' = <<>>
  /\ UNCHANGED <<db, response, inflight, subscriptions>>

\* The channel closes and no disconnect runs (the route is best effort).
channel_gone(c) ==
  /\ c \in channels
  /\ channels' = channels \ {c}
  /\ UNCHANGED <<db, response, inflight, connections, subscriptions, pushed>>

\* send_message: the post to a closed channel raises GoneException and the
\* Connections item is deleted.  table is the Connections table as the
\* handler has written it so far.
SendMessage(table, c, message) ==
  /\ pushed' = <<Post(c, message, IF c \in channels THEN "sent" ELSE "gone")>>
  /\ connections' = IF c \in channels THEN table
                    ELSE [table EXCEPT ![c] = NoConnection]

\* An add that does not look for the order in the list.
SubscribedAdd_m(connection, order_id) ==
  [connection EXCEPT !.subscribed_orders = Append(@, order_id)]

\* if order_id not in subscribed_orders: append.
SubscribedAdd(connection, order_id) ==
  IF InSeq(connection.subscribed_orders, order_id) THEN connection
  ELSE [connection EXCEPT !.subscribed_orders = Append(@, order_id)]

\* A remove that leaves the list as it was.
SubscribedRemove_m(connection, order_id) == connection

\* if order_id in subscribed_orders: remove.
SubscribedRemove(connection, order_id) ==
  IF InSeq(connection.subscribed_orders, order_id)
  THEN [connection EXCEPT !.subscribed_orders = RemoveFirst(@, order_id)]
  ELSE connection

\* default: a message of the client on connection c.  order_id is NULL when
\* the message carries none.
default(c, action, order_id) ==
  /\ UNCHANGED <<db, response, inflight, channels>>
  /\ IF ~HasConnection(c)
     THEN UNCHANGED <<connections, subscriptions>> /\ pushed' = <<>>
     ELSE IF action \in {"subscribe_order", "unsubscribe_order"} /\ order_id = NULL
     THEN /\ UNCHANGED subscriptions
          /\ SendMessage(connections, c, Message("error", NULL, NULL))
     ELSE IF action = "subscribe_order"
     THEN /\ subscriptions' = PutSubscription(subscriptions, Subscription(order_id, c))
          /\ SendMessage([connections EXCEPT ![c] = SubscribedAdd(@, order_id)],
                         c, Message("subscribed", order_id, NULL))
     ELSE IF action = "unsubscribe_order"
     THEN /\ subscriptions' = DeleteSubscription(subscriptions,
                                                 SubscriptionId(order_id, c))
          /\ SendMessage([connections EXCEPT ![c] = SubscribedRemove(@, order_id)],
                         c, Message("unsubscribed", order_id, NULL))
     ELSE IF action = "get_subscriptions"
     THEN /\ UNCHANGED subscriptions
          /\ SendMessage(connections, c, Message("subscriptions", NULL, NULL))
     ELSE /\ UNCHANGED subscriptions
          /\ SendMessage(connections, c, Message("error", NULL, NULL))

\* message_map: the status a message of a known detail-type carries.
MappedStatus(detail_type) ==
  CASE detail_type = "OrderCreated" -> "pending"
    [] detail_type = "OrderConfirmed" -> "confirmed"
    [] detail_type = "OrderCooking" -> "cooking"
    [] detail_type = "OrderReady" -> "ready"
    [] detail_type = "OrderPickedUp" -> "in_delivery"
    [] detail_type = "OrderInDelivery" -> "in_delivery"
    [] detail_type = "OrderDelivered" -> "delivered"
    [] detail_type = "OrderPickupCanceled" -> "ready"
    [] OTHER -> NULL

\* message_map: the type of the message of a known detail-type.
MappedType(detail_type) ==
  CASE detail_type = "OrderCreated" -> "order_created"
    [] detail_type = "OrderConfirmed" -> "order_confirmed"
    [] detail_type = "OrderCooking" -> "order_cooking"
    [] detail_type = "OrderReady" -> "order_ready"
    [] detail_type = "OrderPickedUp" -> "order_picked_up"
    [] detail_type = "OrderInDelivery" -> "order_in_delivery"
    [] detail_type = "OrderDelivered" -> "order_delivered"
    [] detail_type = "OrderPickupCanceled" -> "order_pickup_canceled"
    [] OTHER -> "order_update"

\* The message of any other detail-type carries the detail of the event,
\* and with it the status the publisher put there, if any.
EventMessage(detail_type, order_id, detail_status) ==
  IF MappedStatus(detail_type) # NULL
  THEN Message(MappedType(detail_type), order_id, MappedStatus(detail_type))
  ELSE Message("order_update", order_id, detail_status)

\* Every Subscriptions item as the items of one order.
SubscriptionsOf_m(order_id) == subscriptions

\* query_items on order-id-index.
SubscriptionsOf(order_id) == {x \in subscriptions : x.order_id = order_id}

\* connection_ids: the set of the ids of the subscriptions found.
ConnectionIds(order_id) ==
  {x.connection_ids[k] : x \in SubscriptionsOf(order_id), k \in {1}}

\* The loop visits the set of ids in one order; the posts are independent
\* of each other, so the order taken is the order of ConnectionOrder.
ConnectionOrder == <<"c1", "c2">>

SeqOfSet(S) == SelectSeq(ConnectionOrder, LAMBDA c : c \in S)

\* A fan-out that gives up at the first post that fails.
PostResult_m(c, errors, failed_before) ==
  IF failed_before THEN "skipped"
  ELSE IF c \notin channels THEN "gone"
  ELSE IF c \in errors THEN "error"
  ELSE "sent"

\* post_to_connection: GoneException for a closed channel, another
\* exception for the connections in errors.
PostResult(c, errors, failed_before) ==
  IF c \notin channels THEN "gone"
  ELSE IF c \in errors THEN "error"
  ELSE "sent"

RECURSIVE Posts(_, _, _, _)
Posts(ids, message, errors, failed_before) ==
  IF ids = <<>> THEN <<>>
  ELSE LET result == PostResult(Head(ids), errors, failed_before)
       IN  <<Post(Head(ids), message, result)>>
             \o Posts(Tail(ids), message, errors,
                      failed_before \/ result \in {"gone", "error"})

\* notify_order_update: the target of the bus for an event about order_id.
notify_order_update(order_id, detail_type, detail_status, errors) ==
  /\ UNCHANGED <<db, response, inflight, channels, subscriptions>>
  /\ IF order_id = NULL
     THEN UNCHANGED connections /\ pushed' = <<>>
     ELSE /\ pushed' = Posts(SeqOfSet(ConnectionIds(order_id)),
                             EventMessage(detail_type, order_id, detail_status),
                             errors, FALSE)
          /\ connections' =
               [c \in Connections |->
                  IF \E k \in 1..Len(pushed') :
                       pushed'[k].connection_id = c /\ pushed'[k].result = "gone"
                  THEN NoConnection
                  ELSE connections[c]]

\* SpecSockets: clients connect, subscribe to two orders, leave, and events
\* about the orders arrive from the bus.
SocketOrders == {"o1", "o2"}
SocketActions == {"subscribe_order", "unsubscribe_order", "get_subscriptions", "bogus"}
SocketEvents == {"OrderConfirmed", "OrderAssignedToChef"}

NextSockets ==
  \/ \E c \in Connections : connect(c, "cu")
  \/ \E c \in Connections : disconnect(c)
  \/ \E c \in Connections : channel_gone(c)
  \/ \E c \in Connections, a \in SocketActions, o \in SocketOrders \cup {NULL} :
        default(c, a, o)
  \/ \E o \in SocketOrders \cup {NULL}, e \in SocketEvents,
        errors \in SUBSET Connections :
        notify_order_update(o, e, NULL, errors)

SpecSockets == Init /\ [][NextSockets]_vars
\* SpecFanout: the transitions of an order publish their events, the bus
\* hands the last event published to notify_order_update, and clients
\* subscribed to the order receive the message.
\* The status in the detail of the event, as the handlers of NextFanout put
\* it there: the orders and workflow handlers put the new status, the failure
\* handler puts failed, the queue processors and the chef handlers put none.
DetailStatus(detail_type, o) ==
  CASE detail_type \in {"OrderStatusChanged", "WorkflowUpdated"} -> orders[o].status
    [] detail_type = "OrderCreated" -> "pending"
    [] detail_type = "OrderConfirmed" -> "confirmed"
    [] detail_type = "OrderFailed" -> "failed"
    [] OTHER -> NULL

FanoutStatuses == {"cooking", "bogus"}

CanAppendFanout(o) == CanAppendUpTo(o, MaxSteps + 2)

\* The posts that raise something other than GoneException.
FanoutErrors == {{}, {"c1"}}

\* The bus delivers the event the last handler published.
deliver(o, errors) ==
  /\ response.kind = "ok" /\ response.event # NULL
  /\ notify_order_update(o, response.event, DetailStatus(response.event, o), errors)

NextFanout ==
  \/ \E c \in Connections : connect(c, "cu")
  \/ \E c \in Connections : default(c, "subscribe_order", "o1")
  \/ channel_gone("c2")
  \/ \E o \in OrderIds, errors \in FanoutErrors : deliver(o, errors)
  \/ login("s1")
  \/ \E o \in OrderIds : CanAppendFanout(o) /\ confirm_order(o)
  \/ \E o \in OrderIds : CanAppendFanout(o) /\ confirm_order_manual(o, "s1", TRUE)
  \/ \E o \in OrderIds, s \in FanoutStatuses :
        CanAppendFanout(o) /\ update_order_status(o, "s1", s)
  \/ \E o \in OrderIds :
        CanAppendFanout(o) /\ process_chef_assignments(o, orders[o].tenant_id)
  \/ \E o \in OrderIds : CanAppendFanout(o) /\ chef_complete_cooking(o, "s1", TRUE)
  \/ \E o \in OrderIds : CanAppendFanout(o) /\ chef_complete_packing(o, "s1", TRUE)
  \/ \E o \in OrderIds : CanAppendFanout(o) /\ pickup_order(o, "d1")
  \/ \E o \in OrderIds : CanAppendFanout(o) /\ cancel_pickup(o, "d1")
  \/ \E o \in OrderIds : complete_order(o, "d1")
  \/ \E o \in OrderIds : CanAppendFanout(o) /\ handle_order_failure(o)

SpecFanout == Init /\ [][NextFanout]_vars
(* ------------- orders/handler.py: create_order, step by step ----------- *)
\* A JSON number of the request body: an integer (places = 0) or a decimal
\* literal coef / 10^places that json.loads reads as a float; true is an int
\* for isinstance, a string is not a number, and a key may be missing.
Num(kind, coef, places) == [kind |-> kind, coef |-> coef, places |-> places]

MISSING == Num("missing", 0, 0)

Item(item_id, name, quantity, price) ==
  [item_id |-> item_id, name |-> name, quantity |-> quantity, price |-> price]

\* A Decimal: coef / 10^places.
Dec(coef, places) == [coef |-> coef, places |-> places]

\* str of a float: the shortest literal that reads back as the same float,
\* with one decimal place at least (10.00 is 10.0, 0.10 is 0.1).
RECURSIVE Shortest(_, _)
Shortest(coef, places) ==
  IF places = 0 THEN Dec(coef * 10, 1)
  ELSE IF places > 1 /\ coef % 10 = 0 THEN Shortest(coef \div 10, places - 1)
  ELSE Dec(coef, places)

RECURSIVE Pow10(_)
Pow10(n) == IF n = 0 THEN 1 ELSE 10 * Pow10(n - 1)

\* A conversion that keeps the integer part only.
DecimalOfStr_m(x) == Dec(x.coef \div Pow10(x.places), 0)

\* Decimal(str(x)) of a number that passed the checks.
DecimalOfStr(x) ==
  IF x.kind = "int" THEN Dec(x.coef, 0) ELSE Shortest(x.coef, x.places)

\* Decimal arithmetic: exact within the 28 digits of the context.
Mul(a, b) == Dec(a.coef * b.coef, a.places + b.places)

Max(a, b) == IF a >= b THEN a ELSE b

Add(a, b) ==
  LET p == Max(a.places, b.places)
  IN  Dec(a.coef * Pow10(p - a.places) + b.coef * Pow10(p - b.places), p)

\* sum(...): it starts from the int 0.
RECURSIVE Sum(_)
Sum(seq) == IF seq = <<>> THEN Dec(0, 0) ELSE Add(Sum(Tail(seq)), Head(seq))

\* isinstance(x, (int, float)) and x > 0.
IsNumber(x) == x.kind \in {"int", "float", "bool"}

ItemError(item) ==
  IF item.item_id = NULL \/ item.name = NULL
     \/ item.quantity = MISSING \/ item.price = MISSING
  THEN "ValidationError"
  ELSE IF ~IsNumber(item.quantity) \/ item.quantity.coef <= 0
  THEN "ValidationError"
  ELSE IF ~IsNumber(item.price) \/ item.price.coef <= 0
  THEN "ValidationError"
  ELSE IF item.quantity.kind = "bool" \/ item.price.kind = "bool"
  THEN "InternalError"
  ELSE NULL

\* The loop over the items stops at the first item that raises.
RECURSIVE ItemsError(_)
ItemsError(items) ==
  IF items = <<>> THEN NULL
  ELSE IF ItemError(Head(items)) # NULL THEN ItemError(Head(items))
  ELSE ItemsError(Tail(items))

ProcessedItem(item) ==
  Item(item.item_id, item.name,
       DecimalOfStr(item.quantity), DecimalOfStr(item.price))

ProcessedItems(items) == [k \in 1..Len(items) |-> ProcessedItem(items[k])]

Total(processed_items) ==
  Sum([k \in 1..Len(processed_items) |->
         Mul(processed_items[k].quantity, processed_items[k].price)])

\* str.strip of an address written as a sequence of characters.
RECURSIVE LStrip(_)
LStrip(s) == IF s # <<>> /\ Head(s) = " " THEN LStrip(Tail(s)) ELSE s

RECURSIVE RStrip(_)
RStrip(s) ==
  IF s # <<>> /\ s[Len(s)] = " " THEN RStrip(SubSeq(s, 1, Len(s) - 1)) ELSE s

Strip(s) == RStrip(LStrip(s))

\* The Orders item: the fields of CreatedOrder and the items and the total.
NewOrder(customer, tenant, processed_items, delivery_address) ==
  CreatedOrder(customer, tenant)
    @@ [items |-> processed_items, total |-> Total(processed_items),
        delivery_address |-> delivery_address]

\* create_order: o is the uuid4 drawn, u the caller (NULL when the
\* authorizer gives no user id).  Every check precedes the first write.
create_order(o, u, items, delivery_address) ==
  /\ o \notin DOMAIN orders
  /\ UNCHANGED <<inflight, ws>>
  /\ IF u = NULL \/ items = <<>> \/ Strip(delivery_address) = <<>>
     THEN /\ response' = Fail("ValidationError")
          /\ UNCHANGED db
     ELSE IF ItemsError(items) # NULL
     THEN /\ response' = Fail(ItemsError(items))
          /\ UNCHANGED db
     ELSE /\ orders' = orders @@ (o :> NewOrder(u, UserTenant(u), ProcessedItems(items),
                                                Strip(delivery_address)))
          /\ workflow' = workflow @@ (o :> CreatedWorkflow)
          /\ response' = Resp("ok", "OrderCreated", NULL)
          /\ UNCHANGED availability

\* SpecCreate: customers create orders, with bodies good and bad, and staff
\* requests transitions of the orders created, with targets good and bad.
CreateIds == {"o1", "o2"}
CreateCallers == {"cu", NULL}
Addresses == {<<>>, <<" ">>, <<"A", " ">>}

TwoAtTen == Item("combo", "Combo", Num("int", 2, 0), Num("float", 1000, 2))
OneAtFive == Item("soda", "Soda", Num("int", 1, 0), Num("float", 500, 2))
ThreeAtTenCents == Item("salsa", "Salsa", Num("int", 3, 0), Num("float", 10, 2))
HalfAtOneTwentyFive ==
  Item("kilo", "Kilo", Num("float", 5, 1), Num("float", 125, 2))

GoodItems == {TwoAtTen, OneAtFive, ThreeAtTenCents, HalfAtOneTwentyFive}

NoItemId == Item(NULL, "Combo", Num("int", 1, 0), Num("int", 10, 0))
NoPrice == Item("combo", "Combo", Num("int", 1, 0), MISSING)
ZeroQuantity == Item("combo", "Combo", Num("int", 0, 0), Num("float", 1000, 2))
NegativePrice == Item("combo", "Combo", Num("int", 1, 0), Num("float", -500, 2))
TextQuantity == Item("combo", "Combo", Num("str", 2, 0), Num("float", 1000, 2))
TrueQuantity == Item("combo", "Combo", Num("bool", 1, 0), Num("float", 1000, 2))

BadItems ==
  {NoItemId, NoPrice, ZeroQuantity, NegativePrice, TextQuantity, TrueQuantity}

Bodies ==
  {<<>>} \cup {<<x>> : x \in GoodItems \cup BadItems}
         \cup {<<TwoAtTen, OneAtFive>>, <<ThreeAtTenCents, HalfAtOneTwentyFive>>,
                <<TwoAtTen, NoPrice>>, <<OneAtFive, ZeroQuantity>>}

CreateStatuses == {"confirmed", "bogus", NULL}

InitCreate ==
  /\ orders = <<>>
  /\ workflow = <<>>
  /\ availability = [s \in {"s1", "d1"} |-> Absent]
  /\ response = Resp("ok", NULL, NULL)
  /\ inflight = [i \in Invocations |-> Idle]
  /\ InitSockets

NextCreate ==
  \/ \E o \in CreateIds, u \in CreateCallers, items \in Bodies, a \in Addresses :
        create_order(o, u, items, a)
  \/ \E o \in DOMAIN orders, s \in CreateStatuses :
        CanAppend(o) /\ update_order_status(o, "s1", s)
  \/ \E o \in DOMAIN orders, s \in CreateStatuses :
        CanAppend(o) /\ update_workflow(o, "s1", s, "")

SpecCreate == InitCreate /\ [][NextCreate]_vars
(* ------------- workflow/handler.py, token_management.py: reads --------- *)
\* The answer of a read: its kind and the body returned with it.
Body(kind, body) ==
  [kind |-> kind, event |-> NULL, resumed |-> NULL, body |-> body]

EmptyWorkflow == [current_status |-> "pending", steps |-> <<>>]

\* get_workflow: the ledger as stored, or the empty structure.
get_workflow(o) ==
  /\ UNCHANGED <<db, inflight, ws>>
  /\ IF o = NULL
     THEN response' = Fail("ValidationError")
     ELSE IF o \notin DOMAIN workflow
     THEN response' = Body("ok", EmptyWorkflow)
     ELSE response' = Body("ok", [current_status |-> workflow[o].current_status,
                                  steps |-> workflow[o].steps])

TokenViewers == {"chef", "staff", "admin", "driver"}

TokenStatus(wf) ==
  [tokens |-> [stage \in WaitStages |-> wf.tokens[stage] # NULL],
   current_status |-> wf.current_status]

\* get_wait_token_status: the flags of the five tokens of a ledger; no ledger
\* is NotFoundError.
get_wait_token_status(o, u) ==
  /\ UNCHANGED <<db, inflight, ws>>
  /\ IF o = NULL
     THEN response' = Fail("ValidationError")
     ELSE IF UserType(u) \notin TokenViewers
     THEN response' = Fail("Unauthorized")
     ELSE IF o \notin DOMAIN workflow
     THEN response' = Fail("NotFound")
     ELSE response' = Body("ok", TokenStatus(workflow[o]))

WaitingFor(wf) == {stage \in WaitStages : wf.tokens[stage] # NULL}

\* get_all_waiting_orders: the ledgers of the caller's tenant that hold a token.
WaitingOrders(tenant_id) ==
  {[order_id |-> o, current_status |-> workflow[o].current_status,
    waiting_for |-> WaitingFor(workflow[o])] :
     o \in {p \in DOMAIN workflow :
              /\ p \in DOMAIN orders
              /\ orders[p].tenant_id = tenant_id
              /\ WaitingFor(workflow[p]) # {}}}

get_all_waiting_orders(u) ==
  /\ UNCHANGED <<db, inflight, ws>>
  /\ IF UserType(u) \notin TokenViewers
     THEN response' = Fail("Unauthorized")
     ELSE response' = Body("ok", WaitingOrders(UserTenant(u)))

\* SpecRead: the reads, of an order that has a ledger, of one that has none
\* and of no order, while tokens are stored and the order moves on.
ReadIds == {"o1", "o2", NULL}
ReadCallers == {"s1", "cu"}
ReadStages == {"confirmation", "cooking"}

NextRead ==
  \/ \E o \in ReadIds : get_workflow(o)
  \/ \E o \in ReadIds, u \in ReadCallers : get_wait_token_status(o, u)
  \/ \E u \in ReadCallers : get_all_waiting_orders(u)
  \/ \E o \in OrderIds, stage \in ReadStages, token \in Tokens :
        wait_for_token(o, stage, token)
  \/ \E o \in OrderIds : CanAppend(o) /\ confirm_order_manual(o, "s1", TRUE)
  \/ \E o \in OrderIds : CanAppend(o) /\ update_order_status(o, "s1", "cooking")

SpecRead == Init /\ [][NextRead]_vars
(* ---------- workflow/handler.py: update_workflow, step by step --------- *)
\* The ledger is read, the copy with the new step is put back whole, and
\* then the status of the order is updated.
update_workflow_get(i, o, new_status, assigned_to) ==
  /\ inflight[i].pc = "idle"
  /\ UNCHANGED ws
  /\ UNCHANGED db
  /\ IF new_status \notin VALID_STATUSES
     THEN /\ response' = Fail("ValidationError")
          /\ UNCHANGED inflight
     ELSE /\ inflight' = [inflight EXCEPT
                ![i] = Local("uw_put_workflow", o, assigned_to, new_status,
                             Absent, workflow[o], NULL)]
          /\ UNCHANGED response

update_workflow_put_workflow(i) ==
  /\ inflight[i].pc = "uw_put_workflow"
  /\ UNCHANGED ws
  /\ workflow' = [workflow EXCEPT
       ![inflight[i].order_id] =
          UpdateWorkflowLedger(inflight[i].workflow, inflight[i].status,
                               inflight[i].user)]
  /\ inflight' = [inflight EXCEPT ![i].pc = "uw_update_order",
                                  ![i].workflow = NoLedger]
  /\ UNCHANGED <<orders, availability, response>>

update_workflow_update_order(i) ==
  /\ inflight[i].pc = "uw_update_order"
  /\ UNCHANGED ws
  /\ orders' = [orders EXCEPT ![inflight[i].order_id].status = inflight[i].status]
  /\ response' = Resp("ok", "WorkflowUpdated", NULL)
  /\ inflight' = [inflight EXCEPT ![i] = Done(NULL)]
  /\ UNCHANGED <<workflow, availability>>

(* ------- queue/chef_processor.py, driver_processor.py, step by step ---- *)
\* What the processor of a staff type writes.
TargetStatus(staff_type) == IF staff_type = "chef" THEN "cooking" ELSE "in_delivery"

PreviousStatus(staff_type) == IF staff_type = "chef" THEN "confirmed" ELSE "ready"

AssignedEvent(staff_type) ==
  IF staff_type = "chef" THEN "OrderAssignedToChef" ELSE "OrderAssignedToDriver"

AssignOrder(order, staff_type, staff) ==
  IF staff_type = "chef"
  THEN [order EXCEPT !.status = "cooking", !.assigned_chef = staff]
  ELSE [order EXCEPT !.status = "in_delivery", !.assigned_driver = staff]

\* The queue delivers a message at most this many times.
MaxReceiveCount == 3

\* An invocation that has stopped part-way: the runtime has ended it, or the
\* handler has raised.  The message of a queue processor goes back to the
\* queue.
Crashed(local) ==
  [Idle EXCEPT !.pc = "crashed", !.order_id = local.order_id,
               !.status = local.status, !.records = local.records,
               !.receive_count = local.receive_count]

InFlight(i) == inflight[i].pc \notin {"idle", "done", "crashed"}

crash(i) ==
  /\ InFlight(i)
  /\ inflight' = [inflight EXCEPT ![i] = Crashed(inflight[i])]
  /\ response' = Fail("Crashed")
  /\ UNCHANGED <<db, ws>>

\* The processor receives the message of order o, for the first time or
\* again after a failure, and looks for a candidate; without one it raises.
process_assignment_find(i, o, tenant_id, staff_type) ==
  /\ \/ inflight[i].pc = "idle"
     \/ /\ inflight[i].pc = "crashed"
        /\ inflight[i].order_id = o /\ inflight[i].status = staff_type
        /\ inflight[i].receive_count < MaxReceiveCount - 1
  /\ UNCHANGED ws
  /\ UNCHANGED db
  /\ LET count == IF inflight[i].pc = "crashed"
                  THEN inflight[i].receive_count + 1 ELSE 0
         message == [Local("pa_find", o, NULL, staff_type, Absent, NoLedger, NULL)
                       EXCEPT !.receive_count = count]
     IN  IF LeastCompleted(AvailableOfType(staff_type, tenant_id)) = {}
         THEN /\ inflight' = [inflight EXCEPT ![i] = Crashed(message)]
              /\ response' = Fail("NoCandidateAvailable")
         ELSE \E staff \in LeastCompleted(AvailableOfType(staff_type, tenant_id)) :
              /\ inflight' = [inflight EXCEPT
                    ![i] = [message EXCEPT !.pc = "pa_update_order",
                                           !.user = staff]]
              /\ UNCHANGED response

\* update_item logs a failure of the write and returns None; the processor
\* does not look at what it returns.  ok tells whether the write was made.
process_assignment_update_order(i, ok) ==
  /\ inflight[i].pc = "pa_update_order"
  /\ UNCHANGED ws
  /\ orders' = IF ok
               THEN [orders EXCEPT ![inflight[i].order_id] =
                       AssignOrder(@, inflight[i].status, inflight[i].user)]
               ELSE orders
  /\ inflight' = [inflight EXCEPT ![i].pc = "pa_get_workflow"]
  /\ UNCHANGED <<workflow, availability, response>>

process_assignment_get_workflow(i) ==
  /\ inflight[i].pc = "pa_get_workflow"
  /\ UNCHANGED ws
  /\ inflight' = [inflight EXCEPT
       ![i].pc = "pa_put_workflow",
       ![i].workflow = workflow[inflight[i].order_id]]
  /\ UNCHANGED <<db, response>>

process_assignment_put_workflow(i, ok) ==
  /\ inflight[i].pc = "pa_put_workflow"
  /\ UNCHANGED ws
  /\ workflow' = IF ok
                 THEN [workflow EXCEPT ![inflight[i].order_id] =
                         AssignLedger(inflight[i].workflow,
                                      PreviousStatus(inflight[i].status),
                                      TargetStatus(inflight[i].status),
                                      inflight[i].user)]
                 ELSE workflow
  /\ inflight' = [inflight EXCEPT ![i].pc = "pa_mark_busy",
                                  ![i].workflow = NoLedger]
  /\ UNCHANGED <<orders, availability, response>>

process_assignment_mark_busy(i, ok) ==
  /\ inflight[i].pc = "pa_mark_busy"
  /\ UNCHANGED ws
  /\ availability' = IF ok
                     THEN [availability EXCEPT
                             ![inflight[i].user] = MarkBusy(@, inflight[i].order_id)]
                     ELSE availability
  /\ response' = Resp("ok", AssignedEvent(inflight[i].status), NULL)
  /\ inflight' = [inflight EXCEPT
       ![i] = [inflight[i] EXCEPT !.pc = "done"]]
  /\ UNCHANGED <<orders, workflow>>

\* SpecCommit: one invocation at a time runs a commit step by step, and may
\* stop between two of its writes.
NoneInFlight == \A j \in Invocations : ~InFlight(j)

CommitStatuses == {"confirmed", "bogus"}

InitCommit ==
  /\ InitOrders
  /\ availability = [s \in {"s1", "d1"} |->
                       IF s = "s1" THEN ReportedRecord(Absent, "chef", "t1", "available")
                       ELSE Absent]

NextCommit ==
  \/ \E i \in Invocations, o \in OrderIds, s \in CommitStatuses :
        NoneInFlight /\ CanAppendUpTo(o, MaxSteps - 1)
        /\ update_workflow_get(i, o, s, "")
  \/ \E i \in Invocations : update_workflow_put_workflow(i)
  \/ \E i \in Invocations : update_workflow_update_order(i)
  \/ \E i \in Invocations, o \in OrderIds :
        NoneInFlight /\ CanAppendUpTo(o, MaxSteps - 1)
        /\ process_assignment_find(i, o, orders[o].tenant_id, "chef")
  \/ \E i \in Invocations : process_assignment_update_order(i, TRUE)
  \/ \E i \in Invocations : process_assignment_get_workflow(i)
  \/ \E i \in Invocations : process_assignment_put_workflow(i, TRUE)
  \/ \E i \in Invocations : process_assignment_mark_busy(i, TRUE)
  \/ \E i \in Invocations, o \in OrderIds :
        NoneInFlight /\ CanAppendUpTo(o, MaxSteps - 1)
        /\ complete_cooking_check(i, o, "s1")
  \/ \E i \in Invocations : complete_cooking_update_order(i)
  \/ \E i \in Invocations : complete_cooking_get_workflow(i)
  \/ \E i \in Invocations : complete_cooking_put_workflow(i)
  \/ \E i \in Invocations : complete_cooking_get_token(i)
  \/ \E i \in Invocations : crash(i)

SpecCommit == InitCommit /\ [][NextCommit]_vars
\* SpecRetry: the chef processor runs step by step on the confirmed order
\* o1, one invocation at a time; a write may fail, the invocation may stop
\* part-way, and the queue then delivers the message again.
ConfirmedWorkflow ==
  [CreatedWorkflow EXCEPT
     !.steps = <<Step("pending", "system", TS), Step("confirmed", "system", NULL)>>,
     !.current_status = "confirmed"]

RetryChefs == {"s1", "c2"}

InitRetry ==
  /\ orders = [o \in OrderIds |->
                 [CreatedOrder("cu", "t1") EXCEPT !.status = "confirmed"]]
  /\ workflow = [o \in OrderIds |-> ConfirmedWorkflow]
  /\ availability = [s \in RetryChefs |->
                       ReportedRecord(Absent, "chef", "t1", "available")]
  /\ response = Resp("ok", "OrderConfirmed", NULL)
  /\ inflight = [i \in Invocations |-> Idle]
  /\ InitSockets

NextRetry ==
  \/ \E i \in Invocations, o \in OrderIds :
        NoneInFlight /\ CanAppendUpTo(o, MaxSteps + 1)
        /\ process_assignment_find(i, o, orders[o].tenant_id, "chef")
  \/ \E i \in Invocations, ok \in BOOLEAN : process_assignment_update_order(i, ok)
  \/ \E i \in Invocations : process_assignment_get_workflow(i)
  \/ \E i \in Invocations, ok \in BOOLEAN : process_assignment_put_workflow(i, ok)
  \/ \E i \in Invocations, ok \in BOOLEAN : process_assignment_mark_busy(i, ok)
  \/ \E i \in Invocations : crash(i)

SpecRetry == InitRetry /\ [][NextRetry]_vars
\* SpecIdle: the queue processors select among records that carry the time
\* of their last update, as report_availability writes it.
IdleStaff == {"m1", "m2"}
IdleTimes == {1, 2}

IdleRecords ==
  { [staff_type |-> ty, tenant_id |-> "t1", status |-> st,
     current_order_id |-> NULL, completed_count |-> n, updated_at |-> ts] :
      ty \in {"chef", "driver"}, st \in {"available", "offline"},
      n \in 0..MaxCompleted, ts \in IdleTimes }

InitIdle ==
  /\ InitOrders
  /\ availability \in [IdleStaff -> IdleRecords]

NextIdle ==
  \/ \E o \in OrderIds : CanAppend(o) /\ process_chef_assignments(o, "t1")
  \/ \E o \in OrderIds : CanAppend(o) /\ process_driver_assignments(o, "t1")

SpecIdle == InitIdle /\ [][NextIdle]_vars
\* SpecAppend: the chef processor and wait_for_cooking_token run step by
\* step, interleaved, on the confirmed order o1.
NextAppend ==
  \/ \E i \in Invocations, o \in OrderIds :
        CanAppend(o) /\ inflight[i].pc = "idle"
        /\ process_assignment_find(i, o, orders[o].tenant_id, "chef")
  \/ \E i \in Invocations : process_assignment_update_order(i, TRUE)
  \/ \E i \in Invocations : process_assignment_get_workflow(i)
  \/ \E i \in Invocations : process_assignment_put_workflow(i, TRUE)
  \/ \E i \in Invocations : process_assignment_mark_busy(i, TRUE)
  \/ \E i \in Invocations, o \in OrderIds, token \in Tokens :
        wait_for_token_get(i, o, "cooking", token)
  \/ \E i \in Invocations : wait_for_token_put(i)
  \/ \E u \in RetryChefs : report_chef_availability(u, "available")

SpecAppend == InitRetry /\ [][NextAppend]_vars
\* SpecDouble: the messages of two confirmed orders are processed by two
\* invocations of the chef processor, step by step and interleaved, while
\* the one chef of the tenant reports availability.
PairIds == {"o1", "o2"}

InitDouble ==
  /\ orders = [o \in PairIds |->
                 [CreatedOrder("cu", "t1") EXCEPT !.status = "confirmed"]]
  /\ workflow = [o \in PairIds |-> ConfirmedWorkflow]
  /\ availability = [s \in {"s1"} |->
                       ReportedRecord(Absent, "chef", "t1", "available")]
  /\ response = Resp("ok", "OrderConfirmed", NULL)
  /\ inflight = [i \in Invocations |-> Idle]
  /\ InitSockets

NextDouble ==
  \/ inflight["i1"].pc = "idle" /\ process_assignment_find("i1", "o1", "t1", "chef")
  \/ inflight["i2"].pc = "idle" /\ process_assignment_find("i2", "o2", "t1", "chef")
  \/ \E i \in Invocations, ok \in BOOLEAN : process_assignment_update_order(i, ok)
  \/ \E i \in Invocations : process_assignment_get_workflow(i)
  \/ \E i \in Invocations, ok \in BOOLEAN : process_assignment_put_workflow(i, ok)
  \/ \E i \in Invocations, ok \in BOOLEAN : process_assignment_mark_busy(i, ok)
  \/ \E s \in {"available", "offline"} : report_chef_availability("s1", s)

SpecDouble == InitDouble /\ [][NextDouble]_vars
\* pickup_order step by step: the read of the Orders row and the check of
\* its status, the update of the Orders row, the read of the ledger, and the
\* put of the copy with the ready step closed and the in_delivery step
\* appended.  The invocation keeps the courier in user.
pickup_order_get(i, o, u) ==
  /\ inflight[i].pc = "idle"
  /\ UNCHANGED <<db, ws>>
  /\ IF orders[o].status # "ready"
     THEN /\ response' = Fail("ValidationError")
          /\ UNCHANGED inflight
     ELSE /\ inflight' = [inflight EXCEPT
               ![i] = Local("pk_update_order", o, u, NULL, Absent, NoLedger, NULL)]
          /\ UNCHANGED response

pickup_order_update_order(i) ==
  /\ inflight[i].pc = "pk_update_order"
  /\ UNCHANGED ws
  /\ orders' = [orders EXCEPT
       ![inflight[i].order_id].status = "in_delivery",
       ![inflight[i].order_id].assigned_driver = inflight[i].user]
  /\ inflight' = [inflight EXCEPT ![i].pc = "pk_get_workflow"]
  /\ UNCHANGED <<workflow, availability, response>>

pickup_order_get_workflow(i) ==
  /\ inflight[i].pc = "pk_get_workflow"
  /\ UNCHANGED ws
  /\ inflight' = [inflight EXCEPT
       ![i].pc = "pk_put_workflow",
       ![i].workflow = workflow[inflight[i].order_id]]
  /\ UNCHANGED <<db, response>>

pickup_order_put_workflow(i) ==
  /\ inflight[i].pc = "pk_put_workflow"
  /\ UNCHANGED ws
  /\ workflow' = [workflow EXCEPT
       ![inflight[i].order_id] =
          AssignLedger(inflight[i].workflow, "ready", "in_delivery",
                       inflight[i].user)]
  /\ response' = Resp("ok", "OrderPickedUp", NULL)
  /\ inflight' = [inflight EXCEPT ![i].pc = "done"]
  /\ UNCHANGED <<orders, availability>>

\* SpecPickup: the orchestration makes the order ready once, and couriers
\* d1 and d2 each send one pickup request, handled step by step and
\* interleaved; they report their availability and deliver.
NextPickup ==
  \/ \E o \in OrderIds : orders[o].status = "pending" /\ sf_complete_packing(o)
  \/ \E o \in OrderIds : pickup_order_get("i1", o, "d1")
  \/ \E o \in OrderIds : pickup_order_get("i2", o, "d2")
  \/ \E i \in Invocations : pickup_order_update_order(i)
  \/ \E i \in Invocations : pickup_order_get_workflow(i)
  \/ \E i \in Invocations : pickup_order_put_workflow(i)
  \/ \E u \in CourierCallers, s \in CourierInputs : report_driver_availability(u, s)
  \/ \E o \in OrderIds, u \in CourierCallers : complete_order(o, u)

SpecPickup == InitCourier /\ [][NextPickup]_vars
\* The processor with a batch of several records: the queue delivers the
\* batch, the loop handles the records one after the other (each with the
\* writes of one assignment), and the handler returns after the last one.
\* A record without a candidate raises out of the loop, and the queue
\* delivers the whole batch again.
process_batch_receive(i, batch, staff_type) ==
  /\ \/ inflight[i].pc = "idle"
     \/ /\ inflight[i].pc = "crashed"
        /\ inflight[i].status = staff_type
        /\ inflight[i].receive_count < MaxReceiveCount - 1
  /\ inflight' = [inflight EXCEPT
       ![i] = [Local("pb_record", NULL, NULL, staff_type, Absent, NoLedger, NULL)
                 EXCEPT !.records = batch,
                        !.receive_count = IF inflight[i].pc = "crashed"
                                          THEN inflight[i].receive_count + 1
                                          ELSE 0]]
  /\ UNCHANGED <<db, response, ws>>

process_batch_record(i, tenant_id) ==
  /\ inflight[i].pc = "pb_record"
  /\ inflight[i].records # <<>>
  /\ UNCHANGED ws
  /\ LET o == Head(inflight[i].records)
         staff_type == inflight[i].status
         candidates == LeastCompleted(AvailableOfType(staff_type, tenant_id))
     IN  IF candidates = {}
         THEN /\ inflight' = [inflight EXCEPT ![i] = Crashed(inflight[i])]
              /\ response' = Fail("NoCandidateAvailable")
              /\ UNCHANGED db
         ELSE \E staff \in candidates :
              /\ orders' = [orders EXCEPT ![o] = AssignOrder(@, staff_type, staff)]
              /\ workflow' = [workflow EXCEPT
                   ![o] = AssignLedger(@, PreviousStatus(staff_type),
                                       TargetStatus(staff_type), staff)]
              /\ availability' = [availability EXCEPT ![staff] = MarkBusy(@, o)]
              /\ inflight' = [inflight EXCEPT
                   ![i].records = Tail(@), ![i].order_id = o, ![i].user = staff]
              /\ response' = Resp("ok", AssignedEvent(staff_type), NULL)

process_batch_return(i) ==
  /\ inflight[i].pc = "pb_record"
  /\ inflight[i].records = <<>>
  /\ inflight' = [inflight EXCEPT ![i].pc = "done"]
  /\ response' = Resp("ok", NULL, NULL)
  /\ UNCHANGED <<db, ws>>

\* SpecBatch: the messages of confirmed orders o1 and o2 arrive in one batch
\* while chef s1 is available and chef c2 is not; the chefs report.
Batch == <<"o1", "o2">>

InitBatch ==
  /\ orders = [o \in PairIds |->
                 [CreatedOrder("cu", "t1") EXCEPT !.status = "confirmed"]]
  /\ workflow = [o \in PairIds |-> ConfirmedWorkflow]
  /\ availability = [s \in RetryChefs |->
                       ReportedRecord(Absent, "chef", "t1",
                                      IF s = "s1" THEN "available" ELSE "offline")]
  /\ response = Resp("ok", "OrderConfirmed", NULL)
  /\ inflight = [i \in Invocations |-> Idle]
  /\ InitSockets

NextBatch ==
  \/ process_batch_receive("i1", Batch, "chef")
  \/ process_batch_record("i1", "t1")
  \/ process_batch_return("i1")
  \/ \E u \in RetryChefs, s \in {"available", "offline"} :
        report_chef_availability(u, s)

SpecBatch == InitBatch /\ [][NextBatch]_vars
(* ======================= properties under check ======================= *)
\* The stages in order, and the pairs of the transition table: a stage to
\* its immediate successor, a non-terminal stage to failed, and the
\* compensating in_delivery -> ready.
Stages ==
  <<"pending", "confirmed", "cooking", "packing", "ready", "in_delivery", "delivered">>

Terminal == {"delivered", "failed"}

LegalPairs ==
  {<<Stages[i], Stages[i + 1]>> : i \in 1..(Len(Stages) - 1)}
  \cup {<<s, "failed">> : s \in VALID_STATUSES \ Terminal}
  \cup {<<"in_delivery", "ready">>}

\* The role policy: kitchen roles may request the kitchen stages only,
\* courier roles the courier stages only.
KitchenRoles == {"chef", "staff"}
KitchenTargets == {"confirmed", "cooking", "packing", "ready"}
CourierRoles == {"driver"}
CourierTargets == {"in_delivery", "delivered"}

\* The handler's step wrote the order's row or its ledger of steps.
Transitioned(o) ==
  \/ orders'[o] # orders[o]
  \/ workflow'[o].steps # workflow[o].steps
  \/ workflow'[o].current_status # workflow[o].current_status

OpenSteps(o) ==
  {i \in 1..Len(workflow[o].steps) : workflow[o].steps[i].completed_at = NULL}

\* C2: in every reachable state, at most one step of an order's ledger has
\* completed_at = null.
C2_AtMostOneOpenStep == \A o \in OrderIds : Cardinality(OpenSteps(o)) <= 1

\* C3: a transition request (update_order_status or update_workflow) of a
\* kitchen role for a kitchen stage, whose (current, target) pair is not in
\* the transition table, fails with InvalidTransition and leaves the order's
\* status and ledger unchanged; pending -> ready is such a pair.
C3_InvalidTransitionRejected ==
  [][\A o \in OrderIds, u \in Users, s \in KitchenTargets :
       ( /\ UserType(u) \in KitchenRoles
         /\ <<orders[o].status, s>> \notin LegalPairs
         /\ \/ update_order_status(o, u, s)
            \/ \E a \in AssignedToInputs : update_workflow(o, u, s, a) )
       => /\ response'.kind = "InvalidTransition"
          /\ UNCHANGED <<orders, workflow>>]_vars

\* C4: every change of an order's status is a pair of the transition table:
\* to the immediate successor, to failed, or in_delivery -> ready.
C4_NoStageSkipped ==
  [][\A o \in OrderIds :
       orders'[o].status # orders[o].status
         => <<orders[o].status, orders'[o].status>> \in LegalPairs]_vars

\* C5: update_order_status by a kitchen role targeting in_delivery or
\* delivered, or by a courier role targeting another stage, fails with
\* Unauthorized.
C5_RoleTargetPolicy ==
  [][\A o \in OrderIds, u \in Users, s \in VALID_STATUSES :
       ( /\ \/ UserType(u) \in KitchenRoles /\ s \in CourierTargets
            \/ UserType(u) \in CourierRoles /\ s \notin CourierTargets
         /\ update_order_status(o, u, s) )
       => response'.kind = "Unauthorized"]_vars

\* A request of user u through a mutating entry point, with inputs that pass
\* the entry point's validation.
MutatingRequest(o, u) ==
  \/ \E s \in VALID_STATUSES : update_order_status(o, u, s)
  \/ \E s \in VALID_STATUSES, a \in AssignedToInputs : update_workflow(o, u, s, a)
  \/ \E sent \in BOOLEAN : chef_complete_cooking(o, u, sent)
  \/ \E sent \in BOOLEAN : chef_complete_packing(o, u, sent)
  \/ \E sent \in BOOLEAN : confirm_order_manual(o, u, sent)
  \/ orders[o].status = "ready" /\ pickup_order(o, u)

\* C6: a request of the ordering customer through a mutating entry point
\* fails with Unauthorized, leaves the order, the ledger and the staff
\* records unchanged and publishes no event.
C6_CustomerMutatesNothing ==
  [][\A o \in OrderIds, u \in Users :
       (UserType(u) = "customer" /\ MutatingRequest(o, u))
       => /\ response'.kind = "Unauthorized"
          /\ response'.event = NULL
          /\ UNCHANGED db]_vars

\* C7: delivered and failed are terminal: no step changes the status of an
\* order that is delivered or failed.
C7_TerminalStatesFinal ==
  [][\A o \in OrderIds :
       orders[o].status \in Terminal => orders'[o].status = orders[o].status]_vars

AtOrPast(stage) ==
  {Stages[j] : j \in {i \in 1..Len(Stages) : \E k \in 1..i : Stages[k] = stage}}

\* C8: a queue processor that runs for an order already at or past its
\* target stage is a no-op: it changes neither the order (status, assignee),
\* nor the ledger, nor any staff record.
C8_SecondWorkItemIsNoOp ==
  [][\A o \in OrderIds, t \in Tenants :
       /\ (orders[o].status \in AtOrPast("cooking") /\ process_chef_assignments(o, t))
            => UNCHANGED db
       /\ (orders[o].status \in AtOrPast("in_delivery") /\ process_driver_assignments(o, t))
            => UNCHANGED db]_vars

\* The records a selection for staff_type and tenant t may choose from.
Eligible(staff_type, t) ==
  {s \in DOMAIN availability : /\ availability[s].staff_type = staff_type
                               /\ availability[s].tenant_id = t
                               /\ availability[s].status = "available"}

IsLeastLoaded(c, staff_type, t) ==
  /\ c \in Eligible(staff_type, t)
  /\ \A s \in Eligible(staff_type, t) :
       availability[c].completed_count <= availability[s].completed_count

\* C9: the staff member a queue processor assigns had, when selected, a
\* record of the required staff type and of the work item's tenant with
\* status available, and no such record had a smaller completed count.
C9_SelectsLeastLoadedAvailable ==
  [][\A o \in OrderIds, t \in Tenants :
       /\ (process_chef_assignments(o, t) /\ response'.kind = "ok")
            => IsLeastLoaded(orders'[o].assigned_chef, "chef", t)
       /\ (process_driver_assignments(o, t) /\ response'.kind = "ok")
            => IsLeastLoaded(orders'[o].assigned_driver, "driver", t)]_vars

\* The order is assigned to a chef of count 0 while another chef of the
\* same tenant, with a larger count, is still available.
C9_Witness ==
  /\ response.event = "OrderAssignedToChef"
  /\ \E a, b \in SelectStaff :
       /\ orders["o1"].assigned_chef = a
       /\ availability[a].status = "busy" /\ availability[a].completed_count = 0
       /\ availability[b].staff_type = "chef"
       /\ availability[b].tenant_id = availability[a].tenant_id
       /\ availability[b].status = "available"
       /\ availability[b].completed_count = 1

\* C10: a queue processor that runs when no record of its staff type and of
\* the work item's tenant is available signals NoCandidateAvailable, leaves
\* the order, the ledger and every staff record unchanged and publishes no
\* event.
C10_NoCandidateLeavesState ==
  [][\A o \in OrderIds, t \in Tenants :
       /\ (Eligible("chef", t) = {} /\ process_chef_assignments(o, t))
            => (response' = Fail("NoCandidateAvailable") /\ UNCHANGED db)
       /\ (Eligible("driver", t) = {} /\ process_driver_assignments(o, t))
            => (response' = Fail("NoCandidateAvailable") /\ UNCHANGED db)]_vars

\* A processor has signalled NoCandidateAvailable on a table with staff but
\* none available; the order is as create_order wrote it.
C10_Witness ==
  /\ response = Fail("NoCandidateAvailable")
  /\ \A s \in SelectStaff : availability[s].status # "available"
  /\ \E s \in SelectStaff : availability[s].status = "busy"
  /\ orders["o1"] = CreatedOrder("cu", "t1")
  /\ workflow["o1"] = CreatedWorkflow

\* C11: a chef work item that met NoCandidateAvailable is redelivered; once a
\* chef of the item's tenant has reported available and is the one available
\* chef of that tenant, processOne succeeds: the order becomes cooking and is
\* assigned to that chef, whose record becomes busy with current_order_id
\* naming the order.
C11_RedeliverySucceeds ==
  [][\A o \in OrderIds, t \in Tenants, c \in StaffCallers :
       (Eligible("chef", t) = {c} /\ process_chef_assignments(o, t))
         => /\ response' = Resp("ok", "OrderAssignedToChef", NULL)
            /\ orders'[o].status = "cooking"
            /\ orders'[o].assigned_chef = c
            /\ availability'[c].status = "busy"
            /\ availability'[c].current_order_id = o]_vars

\* The work item of o1 has been assigned to c2, who reported available while
\* the other kitchen user stayed offline; c2 has completed no order before.
C11_Witness ==
  /\ response = Resp("ok", "OrderAssignedToChef", NULL)
  /\ orders["o1"].status = "cooking" /\ orders["o1"].assigned_chef = "c2"
  /\ availability["c2"].status = "busy"
  /\ availability["c2"].current_order_id = "o1"
  /\ availability["c2"].completed_count = 0
  /\ availability["s1"].status = "offline"

\* C12: for every record of the staff directory, current_order_id is
\* non-null exactly when status is busy, after any sequence of availability
\* reports, queue-processor commits and completions.
C12_BusyIffCurrentOrder ==
  \A s \in DOMAIN availability :
    HasRecord(s) => (availability[s].current_order_id # NULL
                       <=> availability[s].status = "busy")

\* C14: when complete_order moves an order from in_delivery to delivered,
\* the record of the courier the order is assigned to becomes available,
\* its current_order_id is cleared and its completed_count grows by one.
C14_DeliveryReleasesCourier ==
  [][\A o \in OrderIds, u \in DOMAIN availability :
       (/\ orders[o].status = "in_delivery"
        /\ orders[o].assigned_driver = u
        /\ HasRecord(u)
        /\ complete_order(o, u))
         => /\ orders'[o].status = "delivered"
            /\ availability'[u].status = "available"
            /\ availability'[u].current_order_id = NULL
            /\ availability'[u].completed_count
                 = availability[u].completed_count + 1]_vars

\* The courier the driver queue processor made busy on o1 has delivered it.
C14_Witness ==
  /\ response = Resp("ok", "OrderDelivered", NULL)
  /\ orders["o1"].status = "delivered"
  /\ orders["o1"].assigned_driver = "d1"
  /\ availability["d1"].current_order_id = "o1"

\* C18: a stage's human action performed while no token is stored for the
\* stage does not fail because the token is absent: the confirmation by
\* confirm_order_manual, the cooking and the packing completion of the chef
\* all answer with success.
C18_AbsentTokenIsNotFatal ==
  [][\A o \in OrderIds, u \in Users, sent \in BOOLEAN :
       /\ (/\ workflow[o].tokens["confirmation"] = NULL
           /\ UserType(u) \in {"admin", "staff"}
           /\ confirm_order_manual(o, u, sent))
            => response'.kind = "ok"
       /\ (/\ workflow[o].tokens["cooking"] = NULL
           /\ ChefRoleAllowed(UserType(u)) /\ orders[o].assigned_chef = u
           /\ orders[o].status = "cooking"
           /\ chef_complete_cooking(o, u, sent))
            => response'.kind = "ok"
       /\ (/\ workflow[o].tokens["packing"] = NULL
           /\ ChefRoleAllowed(UserType(u)) /\ orders[o].assigned_chef = u
           /\ orders[o].status = "packing"
           /\ chef_complete_packing(o, u, sent))
            => response'.kind = "ok"]_vars

\* C13: when the packing of an order is finished, the record of the chef
\* the order is assigned to becomes available, its current_order_id is
\* cleared and its completed_count grows by one, by the chef endpoint as by
\* the orchestration's complete_packing; the count grows once for the
\* order, so the orchestration's complete_packing that runs once the chef
\* endpoint has made the order ready and resumed the packing token leaves
\* the count as it is.
C13_ChefReleasedExactlyOnce ==
  [][\A o \in OrderIds, u \in TokenCallers, sent \in BOOLEAN :
       LET chef == orders[o].assigned_chef
       IN  /\ (/\ orders[o].status = "packing" /\ chef = u
               /\ ChefRoleAllowed(UserType(u)) /\ HasRecord(u)
               /\ chef_complete_packing(o, u, sent))
                => availability'[u] = Release(availability[u])
           /\ (/\ orders[o].status = "packing" /\ chef = u /\ HasRecord(u)
               /\ sf_complete_packing(o))
                => availability'[u] = Release(availability[u])
           /\ (/\ orders[o].status = "ready" /\ chef = u /\ HasRecord(u)
               /\ response.event = "OrderPacked" /\ response.resumed # NULL
               /\ sf_complete_packing(o))
                => availability'[u].completed_count
                     = availability[u].completed_count]_vars

\* The chef endpoint has finished the packing of o1, released its chef and
\* resumed the orchestration that complete_packing belongs to.
C13_Witness ==
  /\ response.kind = "ok" /\ response.event = "OrderPacked"
  /\ orders["o1"].status = "ready" /\ orders["o1"].assigned_chef = "s1"
  /\ response.resumed = "tk"
  /\ availability["s1"].status = "available"
  /\ availability["s1"].current_order_id = NULL
  /\ availability["s1"].completed_count = 1

\* C19: a courier who picks up an order while a token is stored for
\* driver_pickup, or completes its delivery while a token is stored for
\* driver_delivery, resumes the orchestration with that token and clears the
\* stored token.
C19_CourierActionResumesToken ==
  [][\A o \in OrderIds, u \in TokenCallers :
       /\ (/\ orders[o].status = "ready"
           /\ workflow[o].tokens["driver_pickup"] # NULL
           /\ pickup_order(o, u))
            => /\ orders'[o].status = "in_delivery"
               /\ response'.resumed = workflow[o].tokens["driver_pickup"]
               /\ workflow'[o].tokens["driver_pickup"] = NULL
       /\ (/\ orders[o].status = "in_delivery" /\ orders[o].assigned_driver = u
           /\ workflow[o].tokens["driver_delivery"] # NULL
           /\ complete_order(o, u))
            => /\ orders'[o].status = "delivered"
               /\ response'.resumed = workflow[o].tokens["driver_delivery"]
               /\ workflow'[o].tokens["driver_delivery"] = NULL]_vars

\* The courier has delivered o1 while the token of driver_delivery is stored.
C19_Witness ==
  /\ response = Resp("ok", "OrderDelivered", NULL)
  /\ orders["o1"].status = "delivered" /\ orders["o1"].assigned_driver = "d1"
  /\ workflow["o1"].tokens["driver_delivery"] = "tk"

\* What a repeated attempt leaves alone: no resume, the status and the steps.
C17_Again(o) ==
  /\ response'.resumed = NULL
  /\ orders'[o].status = orders[o].status
  /\ workflow'[o].steps = workflow[o].steps
  /\ workflow'[o].current_status = workflow[o].current_status

\* C17: a human action that resumes the stored token of its stage clears
\* the token of that stage in the ledger; the same action attempted again
\* invokes no resume and changes neither the order's status nor the ledger's
\* steps or current_status; and no human action invokes a resume while no
\* token is stored for its stage.
C17_ResumeClearsThenNoOp ==
  [][\A o \in OrderIds, u \in TokenCallers, sent \in BOOLEAN :
       /\ (/\ workflow[o].tokens["cooking"] # NULL /\ sent
           /\ orders[o].status = "cooking" /\ orders[o].assigned_chef = u
           /\ chef_complete_cooking(o, u, sent))
            => /\ response'.resumed = workflow[o].tokens["cooking"]
               /\ workflow'[o].tokens["cooking"] = NULL
       /\ (/\ workflow[o].tokens["packing"] # NULL /\ sent
           /\ orders[o].status = "packing" /\ orders[o].assigned_chef = u
           /\ chef_complete_packing(o, u, sent))
            => /\ response'.resumed = workflow[o].tokens["packing"]
               /\ workflow'[o].tokens["packing"] = NULL
       /\ (/\ workflow[o].tokens["confirmation"] # NULL /\ sent
           /\ UserType(u) = "staff"
           /\ confirm_order_manual(o, u, sent))
            => /\ response'.resumed = workflow[o].tokens["confirmation"]
               /\ workflow'[o].tokens["confirmation"] = NULL
       /\ (/\ response.event = "OrderCookingCompleted" /\ response.resumed # NULL
           /\ chef_complete_cooking(o, u, sent))
            => C17_Again(o)
       /\ (/\ response.event = "OrderPacked" /\ response.resumed # NULL
           /\ chef_complete_packing(o, u, sent))
            => C17_Again(o)
       /\ (/\ response.kind = "ok" /\ response.event = NULL
           /\ response.resumed # NULL
           /\ confirm_order_manual(o, u, sent))
            => C17_Again(o)
       /\ (workflow[o].tokens["cooking"] = NULL /\ chef_complete_cooking(o, u, sent))
            => response'.resumed = NULL
       /\ (workflow[o].tokens["packing"] = NULL /\ chef_complete_packing(o, u, sent))
            => response'.resumed = NULL
       /\ (/\ workflow[o].tokens["confirmation"] = NULL
           /\ confirm_order_manual(o, u, sent))
            => response'.resumed = NULL]_vars

\* The chef has completed the cooking of o1 and resumed the stored cooking
\* token; the ledger has room for the steps of another attempt.
C17_Witness ==
  /\ response = Resp("ok", "OrderCookingCompleted", "tk")
  /\ orders["o1"].status = "packing" /\ orders["o1"].assigned_chef = "s1"
  /\ workflow["o1"].tokens["cooking"] = NULL
  /\ Len(workflow["o1"].steps) = 3

\* C15: the completed_count of a staff record never decreases, however a
\* report_availability, which reads the record and then rewrites it whole,
\* interleaves with a completion that increments the count.
C15_CompletedCountMonotonic ==
  [][\A s \in DOMAIN availability :
       availability'[s].completed_count >= availability[s].completed_count]_vars

\* C16: the resume primitive send_task_success is invoked at most once with
\* a stored token: no two invocations of complete_cooking pass the one
\* stored cooking token of the order to it.
C16_TokenConsumedAtMostOnce ==
  \A i, j \in Invocations :
    (i # j /\ inflight[i].task_token # NULL)
      => inflight[j].task_token # inflight[i].task_token

\* C20: a token stored for a stage stays stored until the resume of that
\* stage consumes it: a step that removes the stored token of a stage is the
\* return of the human action of that stage with the token resumed.
C20_TokenStaysUntilResumed ==
  [][\A o \in OrderIds, stage \in WaitStages :
       (workflow[o].tokens[stage] # NULL /\ workflow'[o].tokens[stage] = NULL)
         => /\ response'.kind = "ok"
            /\ response'.resumed = workflow[o].tokens[stage]
            /\ stage = "cooking" => response'.event = "OrderCookingCompleted"
            /\ stage = "packing" => response'.event = "OrderPacked"]_vars

\* C21: storing the wait token of a stage sets the token of that stage on
\* the order's ledger and nothing else, and resumes nothing: the steps, the
\* current_status and the tokens of the other stages are after the store
\* what they were before it, also when a transition of the same order has
\* run since the store read the ledger.
C21_StoreTouchesOnlyItsToken ==
  [][\A i \in Invocations :
       wait_for_token_put(i)
         => LET o == inflight[i].order_id
                stage == inflight[i].status
            IN  /\ workflow'[o].tokens[stage] = inflight[i].task_token
                /\ response'.resumed = NULL
                /\ workflow'[o].steps = workflow[o].steps
                /\ workflow'[o].current_status = workflow[o].current_status
                /\ \A other \in WaitStages \ {stage} :
                     workflow'[o].tokens[other] = workflow[o].tokens[other]]_vars

\* The cooking token of o1 has been stored on the ledger that a staff
\* member's transition to cooking wrote.
C21_Witness ==
  /\ response = Resp("ok", NULL, NULL)
  /\ workflow["o1"].tokens["cooking"] = "tk"
  /\ workflow["o1"].current_status = "cooking"
  /\ \E i \in Invocations : inflight[i].pc = "done"

\* C22: cancel_pickup by the courier that an order in in_delivery is
\* assigned to returns the order to ready, clears its assigned courier,
\* closes the in_delivery step and opens a ready step owned by system; the
\* order can then be taken again: the pickup of any courier succeeds, and so
\* does the driver queue processor when a driver of the tenant is available.
C22_CancelReturnsToReady ==
  [][\A o \in OrderIds, u \in CourierCallers, t \in Tenants :
       LET n == Len(workflow[o].steps)
       IN  /\ (/\ orders[o].status = "in_delivery"
               /\ orders[o].assigned_driver = u
               /\ cancel_pickup(o, u))
                => /\ response' = Resp("ok", "OrderPickupCanceled", NULL)
                   /\ orders'[o].status = "ready"
                   /\ orders'[o].assigned_driver = NULL
                   /\ workflow'[o].current_status = "ready"
                   /\ Len(workflow'[o].steps) = n + 1
                   /\ workflow'[o].steps[n + 1] = Step("ready", "system", NULL)
                   /\ workflow'[o].steps[n].status = "in_delivery"
                   /\ workflow'[o].steps[n].completed_at = TS
           /\ (response.event = "OrderPickupCanceled" /\ pickup_order(o, u))
                => /\ response' = Resp("ok", "OrderPickedUp", NULL)
                   /\ orders'[o].status = "in_delivery"
                   /\ orders'[o].assigned_driver = u
           /\ (/\ response.event = "OrderPickupCanceled"
               /\ Eligible("driver", t) # {}
               /\ process_driver_assignments(o, t))
                => /\ response' = Resp("ok", "OrderAssignedToDriver", NULL)
                   /\ orders'[o].status = "in_delivery"
                   /\ orders'[o].assigned_driver \in Eligible("driver", t)]_vars

\* Courier d1, assigned to o1 by the queue processor, has cancelled the
\* pickup while courier d2 is available; the ledger has room for the steps
\* of another pickup.
C22_Witness ==
  /\ response = Resp("ok", "OrderPickupCanceled", NULL)
  /\ orders["o1"].status = "ready" /\ orders["o1"].assigned_driver = NULL
  /\ availability["d1"].current_order_id = "o1"
  /\ availability["d2"].status = "available"
  /\ Len(workflow["o1"].steps) = 3

Count(seq, x) == Cardinality({k \in 1..Len(seq) : seq[k] = x})

PairRecords(table, order_id, c) ==
  {x \in table : x.subscription_id = SubscriptionId(order_id, c)}

Sent(c, message) == <<Post(c, message, "sent")>>

\* C23: subscribe_order on a live connection leaves exactly one Subscription
\* record for (order_id, connection_id) and the order_id exactly once in the
\* connection's subscribed-order list; a second subscribe of the same pair,
\* straight after the first, leaves the Subscriptions and the Connections as
\* the first left them.
C23_SubscribeIdempotent ==
  [][\A c \in Connections, o \in SocketOrders :
       (default(c, "subscribe_order", o) /\ HasConnection(c) /\ c \in channels)
       => /\ PairRecords(subscriptions', o, c) = {Subscription(o, c)}
          /\ Count(connections'[c].subscribed_orders, o) = 1
          /\ (pushed = Sent(c, Message("subscribed", o, NULL))
              => /\ subscriptions' = subscriptions
                 /\ connections' = connections)]_vars

\* Connection c1 holds o2 and o1, and the last handler was a subscribe of
\* (o2, c1), the order at the head of the list: it was there before o1 was added.
C23_Witness ==
  /\ pushed = Sent("c1", Message("subscribed", "o2", NULL))
  /\ connections["c1"].subscribed_orders = <<"o2", "o1">>
  /\ Subscription("o2", "c1") \in subscriptions

Others(seq, order_id) == SelectSeq(seq, LAMBDA x : x # order_id)

\* C24: unsubscribe_order on a live connection leaves no Subscription record
\* for (order_id, connection_id) and the order_id absent from the
\* connection's subscribed-order list, and leaves every other subscription,
\* of this and of every other connection, as it was.
C24_UnsubscribeReverses ==
  [][\A c \in Connections, o \in SocketOrders :
       (default(c, "unsubscribe_order", o) /\ HasConnection(c) /\ c \in channels)
       => /\ PairRecords(subscriptions', o, c) = {}
          /\ ~InSeq(connections'[c].subscribed_orders, o)
          /\ subscriptions' \ PairRecords(subscriptions, o, c) = subscriptions'
          /\ subscriptions \ PairRecords(subscriptions, o, c) = subscriptions'
          /\ connections'[c].subscribed_orders
               = Others(connections[c].subscribed_orders, o)
          /\ \A d \in Connections \ {c} : connections'[d] = connections[d]]_vars

\* Connection c1 was subscribed to o1 and o2 and has unsubscribed from o1.
C24_Witness ==
  /\ pushed = Sent("c1", Message("unsubscribed", "o1", NULL))
  /\ connections["c1"].subscribed_orders = <<"o2">>
  /\ subscriptions = {Subscription("o2", "c1")}

PostsTo(posts, c) == Cardinality({k \in 1..Len(posts) : posts[k].connection_id = c})

Subscribed(order_id) ==
  {c \in Connections : \E x \in subscriptions :
      x.order_id = order_id /\ InSeq(x.connection_ids, c)}

\* C25: the fan-out of an event about an order posts once to each connection
\* that has a Subscription for the order and to no other connection, every
\* post names the order, and the post to an open channel that raises nothing
\* is delivered.
C25_FanoutOncePerSubscriber ==
  [][\A o \in SocketOrders, e \in SocketEvents, errors \in SUBSET Connections :
       notify_order_update(o, e, NULL, errors)
       => /\ \A c \in Connections :
               PostsTo(pushed', c) = IF c \in Subscribed(o) THEN 1 ELSE 0
          /\ \A k \in 1..Len(pushed') :
               /\ pushed'[k].message.order_id = o
               /\ (pushed'[k].connection_id \in channels \ errors
                   => pushed'[k].result = "sent")]_vars

\* c1 and c2 are connected, c1 to o1 and c2 to o2, and an event about o1 was
\* pushed to c1 alone.
C25_Witness ==
  /\ pushed = Sent("c1", Message("order_confirmed", "o1", "confirmed"))
  /\ subscriptions = {Subscription("o1", "c1"), Subscription("o2", "c2")}
  /\ channels = Connections

GonePost(posts, c) ==
  \E k \in 1..Len(posts) : posts[k].connection_id = c /\ posts[k].result = "gone"

\* C26: after a disconnect of a connection, and after a handler whose post to
\* it failed because the channel is gone, neither the Connection record nor
\* any Subscription record of that connection is left.
C26_NoSubscriptionOutlivesConnection ==
  [][\A c \in Connections :
       (disconnect(c) \/ GonePost(pushed', c))
       => /\ ~HasConnection(c)'
          /\ \A x \in subscriptions' : x.subscription_id[2] # c]_vars

\* The Connection of c1 is deleted, its Subscription for o1 is left, and an
\* event about o1 was posted to c1 once more.
C26_Witness ==
  /\ ~HasConnection("c1")
  /\ Subscription("o1", "c1") \in subscriptions
  /\ pushed = <<Post("c1", Message("order_confirmed", "o1", "confirmed"), "gone")>>

ResultFor(posts, c) ==
  {posts[k].result : k \in {j \in 1..Len(posts) : posts[j].connection_id = c}}

C28_PushedMessageCarriesNewStatus ==
  [][\A o \in OrderIds, errors \in SUBSET Connections :
       deliver(o, errors)
       => \A c \in Subscribed(o) :
            \E k \in 1..Len(pushed') :
              /\ pushed'[k].connection_id = c
              /\ pushed'[k].message.order_id = o
              /\ pushed'[k].message.status = orders[o].status]_vars

\* The order was assigned to a chef and is cooking; the message delivered to
\* c1 for OrderAssignedToChef carries no status.
C28_Witness ==
  /\ response.event = "OrderAssignedToChef"
  /\ orders["o1"].status = "cooking"
  /\ pushed = Sent("c1", Message("order_update", "o1", NULL))

\* The value of a number in ten-thousandths.
Units(x) == x.coef * Pow10(4 - x.places)

\* The sum of unit price times quantity over the line items of a body, in
\* ten-thousandths, from the literals of the body.
RECURSIVE ExactTotal(_)
ExactTotal(items) ==
  IF items = <<>> THEN 0
  ELSE Head(items).quantity.coef * Head(items).price.coef
         * Pow10(4 - Head(items).quantity.places - Head(items).price.places)
       + ExactTotal(Tail(items))

ValidBody(u, items, delivery_address) ==
  /\ u # NULL
  /\ items # <<>>
  /\ \E k \in 1..Len(delivery_address) : delivery_address[k] # " "
  /\ \A k \in 1..Len(items) :
       /\ items[k].item_id # NULL /\ items[k].name # NULL
       /\ items[k].quantity.kind \in {"int", "float"} /\ items[k].quantity.coef > 0
       /\ items[k].price.kind \in {"int", "float"} /\ items[k].price.coef > 0

\* C29: create_order with a valid body succeeds and creates an order whose
\* status is pending and whose total is exactly the sum over its line items
\* of unit price times quantity, and a ledger whose current_status is pending
\* and whose steps are one open pending step, leaving every other order and
\* ledger as it was.
C29_CreateTotalsExactly ==
  [][\A o \in CreateIds, u \in CreateCallers, items \in Bodies, a \in Addresses :
       (o \notin DOMAIN orders /\ ValidBody(u, items, a) /\ create_order(o, u, items, a))
       => /\ response'.kind = "ok"
          /\ DOMAIN orders' = DOMAIN orders \cup {o}
          /\ orders'[o].status = "pending"
          /\ Units(orders'[o].total) = ExactTotal(items)
          /\ Len(orders'[o].items) = Len(items)
          /\ workflow'[o].current_status = "pending"
          /\ workflow'[o].steps = <<Step("pending", "system", NULL)>>
          /\ \A p \in DOMAIN orders :
               orders'[p] = orders[p] /\ workflow'[p] = workflow[p]]_vars

\* Scenario A: an order of 2 at 10.00 and 1 at 5.00 is pending with a total
\* of 25.00, and an order of 3 at 0.10 has a total of 0.30.
C29_Witness ==
  /\ DOMAIN orders = CreateIds
  /\ orders["o1"].status = "pending"
  /\ Len(orders["o1"].items) = 2
  /\ orders["o1"].items[1].item_id = "combo"
  /\ orders["o1"].items[2].item_id = "soda"
  /\ Units(orders["o1"].total) = 250000
  /\ Len(orders["o2"].items) = 1
  /\ orders["o2"].items[1].item_id = "salsa"
  /\ Units(orders["o2"].total) = 3000

InvalidBody(u, items, delivery_address) ==
  \/ items = <<>>
  \/ \A k \in 1..Len(delivery_address) : delivery_address[k] = " "
  \/ \E k \in 1..Len(items) :
       \/ items[k].item_id = NULL
       \/ items[k].price = MISSING
       \/ items[k].quantity.kind \in {"int", "float"} /\ items[k].quantity.coef <= 0
       \/ items[k].price.kind \in {"int", "float"} /\ items[k].price.coef <= 0

\* C30: a step that answers ValidationError changes no Order, no ledger and
\* no StaffAvailabilityRecord and publishes no event; create_order with no
\* items, a blank address, an item without a field or with a quantity or a
\* price that is not positive, and a transition to a missing or unknown
\* status, are such steps.
C30_ValidationErrorMutatesNothing ==
  [][/\ response'.kind = "ValidationError"
        => UNCHANGED db /\ response'.event = NULL
     /\ \A o \in CreateIds, u \in CreateCallers, items \in Bodies, a \in Addresses :
          (o \notin DOMAIN orders /\ InvalidBody(u, items, a)
             /\ create_order(o, u, items, a))
          => /\ response'.kind = "ValidationError"
             /\ UNCHANGED db /\ response'.event = NULL
     /\ \A o \in DOMAIN orders, s \in {"bogus", NULL} :
          (update_order_status(o, "s1", s) \/ update_workflow(o, "s1", s, ""))
          => /\ response'.kind = "ValidationError"
             /\ UNCHANGED db /\ response'.event = NULL]_vars

\* An order exists and was moved on, and the last request was refused with
\* ValidationError.
C30_Witness ==
  /\ response.kind = "ValidationError"
  /\ "o1" \in DOMAIN orders
  /\ orders["o1"].status = "confirmed"
  /\ Len(workflow["o1"].steps) = 2

ReadStep ==
  \/ \E o \in ReadIds : get_workflow(o)
  \/ \E o \in ReadIds, u \in ReadCallers : get_wait_token_status(o, u)
  \/ \E u \in ReadCallers : get_all_waiting_orders(u)

\* C31: a read changes no record; get_workflow of an order without a ledger
\* answers the empty structure, and the wait-token status of an order
\* without a ledger, asked by staff, is an answer and not an error.
C31_ReadsNeverFailForNoData ==
  [][/\ ReadStep => UNCHANGED db
     /\ \A o \in ReadIds \ {NULL} :
          (get_workflow(o) /\ o \notin DOMAIN workflow)
          => response' = Body("ok", EmptyWorkflow)
     /\ \A o \in ReadIds \ {NULL} :
          (get_wait_token_status(o, "s1") /\ o \notin DOMAIN workflow)
          => response'.kind = "ok"]_vars

\* Staff asked for the wait-token status of an order that has no ledger, and
\* the answer is NotFound, while o1 has its ledger and holds a token.
C31_Witness ==
  /\ response = Fail("NotFound")
  /\ workflow["o1"].tokens["confirmation"] # NULL

\* C32: a step that moves the ledger of an order to a stage, or that binds a
\* StaffAvailabilityRecord to the order, finds Order.status already at the
\* new stage.
C32_StatusWrittenFirst ==
  [][\A o \in OrderIds :
       /\ workflow'[o].current_status # workflow[o].current_status
          => orders[o].status = workflow'[o].current_status
       /\ \A s \in DOMAIN availability :
            (availability'[s].current_order_id = o
             /\ availability[s].current_order_id # o)
            => orders[o].assigned_chef = s /\ orders[o].status = "cooking"]_vars

\* update_workflow stopped between its two writes: the ledger of o1 is at
\* confirmed and Order.status is still pending.
C32_Witness ==
  /\ response = Fail("Crashed")
  /\ NoneInFlight
  /\ workflow["o1"].current_status = "confirmed"
  /\ Len(workflow["o1"].steps) = 2
  /\ orders["o1"].status = "pending"

StepsOf(o, status) ==
  {k \in 1..Len(workflow[o].steps) : workflow[o].steps[k].status = status}

BusyWith(o) ==
  {s \in DOMAIN availability :
     availability[s].status = "busy" /\ availability[s].current_order_id = o}

\* C33: when the processor finishes a message that the queue delivered again
\* after an invocation that stopped part-way, and every write of this
\* invocation was made, the order has a chef, its ledger has exactly one
\* cooking step, and exactly one StaffAvailabilityRecord, the chef's, is
\* busy with the order.
C33_RetryIsSafe ==
  [][\A i \in Invocations :
       (/\ process_assignment_mark_busy(i, TRUE)
        /\ inflight[i].receive_count > 0
        /\ orders[inflight[i].order_id].assigned_chef = inflight[i].user
        /\ Last(workflow[inflight[i].order_id].steps).assigned_to = inflight[i].user)
       => /\ Cardinality(StepsOf(inflight[i].order_id, "cooking"))' = 1
          /\ BusyWith(inflight[i].order_id)' = {inflight[i].user}]_vars

\* The first delivery stopped after the ledger write; the second delivery
\* was processed to its end, and the ledger of o1 holds two cooking steps.
C33_Witness ==
  /\ \E i \in Invocations : inflight[i].pc = "done" /\ inflight[i].receive_count = 1
  /\ response = Resp("ok", "OrderAssignedToChef", NULL)
  /\ Cardinality(StepsOf("o1", "cooking")) = 2
  /\ Cardinality(BusyWith("o1")) = 1

MinCount(staff_type) ==
  {s \in DOMAIN availability :
     /\ availability[s].staff_type = staff_type
     /\ availability[s].status = "available"
     /\ availability[s].tenant_id = "t1"
     /\ \A t \in DOMAIN availability :
          (/\ availability[t].staff_type = staff_type
           /\ availability[t].status = "available"
           /\ availability[t].tenant_id = "t1")
          => availability[s].completed_count <= availability[t].completed_count}

\* C34: the staff member a queue processor assigns has, among the available
\* records of least completed_count, the earliest time of last update.
C34_TiesGoToMostIdle ==
  [][\A o \in OrderIds :
       /\ (process_chef_assignments(o, "t1") /\ response'.kind = "ok")
          => \A s \in MinCount("chef") :
               availability[orders'[o].assigned_chef].updated_at
                 <= availability[s].updated_at
       /\ (process_driver_assignments(o, "t1") /\ response'.kind = "ok")
          => \A s \in MinCount("driver") :
               availability[orders'[o].assigned_driver].updated_at
                 <= availability[s].updated_at]_vars

\* Two chefs of equal count were available, m1 updated before m2, and the
\* order went to m2.
C34_Witness ==
  /\ response = Resp("ok", "OrderAssignedToChef", NULL)
  /\ orders["o1"].assigned_chef = "m2"
  /\ availability["m1"].status = "available"
  /\ availability["m1"].staff_type = "chef"
  /\ availability["m1"].completed_count = availability["m2"].completed_count
  /\ availability["m1"].updated_at < availability["m2"].updated_at

\* old is a prefix of new, but for the completion of the last step of old.
Extends(old, new) ==
  /\ Len(old) <= Len(new)
  /\ \A k \in 1..Len(old) :
       \/ new[k] = old[k]
       \/ /\ k = Len(old)
          /\ old[k].completed_at = NULL
          /\ new[k] = [old[k] EXCEPT !.completed_at = TS]

\* C35: in every step the steps of a ledger before it are a prefix of the
\* steps after it, but for the completion of the last open step.
C35_StepsAppendOnly ==
  [][\A o \in OrderIds : Extends(workflow[o].steps, workflow'[o].steps)]_vars

\* The order is cooking with its chef, the cooking token is stored, and the
\* ledger is back at its confirmed step: the cooking step is gone.
C35_Witness ==
  /\ orders["o1"].status = "cooking"
  /\ orders["o1"].assigned_chef # NULL
  /\ workflow["o1"].tokens["cooking"] = "tk"
  /\ workflow["o1"].steps = ConfirmedWorkflow.steps
  /\ \A i \in Invocations : inflight[i].pc = "done"

\* C36: the current_status of every ledger that has steps is the status of
\* its last step.
C36_CurrentStatusIsLastStep ==
  \A o \in OrderIds :
    workflow[o].steps # <<>>
      => workflow[o].current_status = Last(workflow[o].steps).status

\* The courier has completed the delivery: the ledger says delivered and its
\* last step is the closed in_delivery step.
C36_Witness ==
  /\ response = Resp("ok", "OrderDelivered", NULL)
  /\ workflow["o1"].current_status = "delivered"
  /\ Last(workflow["o1"].steps) = Step("in_delivery", "d1", TS)

ActiveOrdersOf(s) ==
  {o \in DOMAIN orders :
     \/ orders[o].assigned_chef = s /\ orders[o].status \in {"cooking", "packing"}
     \/ orders[o].assigned_driver = s /\ orders[o].status = "in_delivery"}

\* C37: no staff member is the assignee of two orders that are in that
\* member's active stages at the same time.
C37_OneActiveOrderPerStaff ==
  \A s \in DOMAIN availability : Cardinality(ActiveOrdersOf(s)) <= 1

\* Both invocations have finished with every write made, and chef s1 cooks
\* o1 and o2.
C37_Witness ==
  /\ \A i \in Invocations : inflight[i].pc = "done"
  /\ ActiveOrdersOf("s1") = PairIds
  /\ \A o \in PairIds : Last(workflow[o].steps) = Step("cooking", "s1", NULL)
  /\ availability["s1"].status = "busy"

OpenDeliverySteps(o) ==
  {k \in 1..Len(workflow[o].steps) :
     /\ workflow[o].steps[k].status = "in_delivery"
     /\ workflow[o].steps[k].completed_at = NULL}

\* C38: of the pickup requests of two couriers for the same ready order at
\* most one succeeds, and once both have returned the order in delivery has
\* one open in_delivery step, assigned to the order's assigned courier.
C38_OnePickupSucceeds ==
  /\ ~(\A i \in Invocations : inflight[i].pc = "done")
  /\ \A o \in OrderIds :
       (/\ \A i \in Invocations : inflight[i].pc \in {"idle", "done"}
        /\ orders[o].status = "in_delivery")
       => /\ Cardinality(OpenDeliverySteps(o)) = 1
          /\ \A k \in OpenDeliverySteps(o) :
               workflow[o].steps[k].assigned_to = orders[o].assigned_driver

\* Both requests have succeeded: the ledger holds an open in_delivery step
\* of each courier and the Orders row names d1.
C38_Witness ==
  /\ \A i \in Invocations : inflight[i].pc = "done"
  /\ response = Resp("ok", "OrderPickedUp", NULL)
  /\ orders["o1"].status = "in_delivery"
  /\ orders["o1"].assigned_driver = "d1"
  /\ Last(workflow["o1"].steps) = Step("in_delivery", "d2", NULL)
  /\ Cardinality(OpenDeliverySteps("o1")) = 2

\* C39: when the batch is delivered again, the record of an order that the
\* earlier delivery has assigned (it is cooking, with a chef) keeps its chef
\* and gets no further step.
C39_RedeliveryKeepsAssignment ==
  [][\A o \in PairIds :
       (/\ process_batch_record("i1", "t1")
        /\ inflight["i1"].receive_count > 0
        /\ Head(inflight["i1"].records) = o
        /\ orders[o].status = "cooking")
       => /\ orders'[o].assigned_chef = orders[o].assigned_chef
          /\ Len(workflow'[o].steps) = Len(workflow[o].steps)]_vars

\* The second delivery has assigned o1, which s1 was cooking, to c2 and has
\* appended a second cooking step.
C39_Witness ==
  /\ inflight["i1"].receive_count = 1
  /\ inflight["i1"].records = <<"o2">>
  /\ orders["o1"].assigned_chef = "c2"
  /\ workflow["o1"].steps =
       <<Step("pending", "system", TS), Step("confirmed", "system", TS),
         Step("cooking", "s1", NULL), Step("cooking", "c2", NULL)>>
  /\ availability["s1"].current_order_id = "o1"

\* C40: an operation that answers with an error leaves the status of every
\* Orders row and every ledger as they were before it; so does
\* confirm_order_manual when send_task_success raises.
C40_ErrorChangesNothing ==
  [][response'.kind # "ok"
       => \A o \in OrderIds : /\ orders'[o].status = orders[o].status
                              /\ workflow'[o] = workflow[o]]_vars

\* confirm_order_manual has answered with the error of the failed resume:
\* the Orders row is confirmed, the ledger still shows pending and holds the
\* confirmation token.
C40_Witness ==
  /\ response = Fail("InternalError")
  /\ orders["o1"].status = "confirmed"
  /\ workflow["o1"].current_status = "pending"
  /\ Last(workflow["o1"].steps).status = "pending"
  /\ workflow["o1"].tokens["confirmation"] # NULL

====
